---- MODULE Spec2Model ----
(***************************************************************************)
(* Data-broker removal tool: the session orchestrator (main), the          *)
(* per-broker removal workflow (RemovalEngine.removeFromBroker and its     *)
(* phase helpers) and the failure-analysis feedback (AIAnalyzer).          *)
(*                                                                         *)
(* One action per await point of the code.  Every answer of the page       *)
(* oracle (Stagehand page.goto / extract / act / screenshot), of the       *)
(* vision model and of the file system is a nondeterministic input.        *)
(***************************************************************************)
EXTENDS Integers, Sequences, FiniteSets, TLC

(* ------------------------------ bounds --------------------------------- *)
\* longest broker catalog (brokers.json) explored
MaxBrokers == 2

(* --------------------------- JS value helpers -------------------------- *)
\* an optional string property that was never assigned (JS undefined)
Absent == "<undefined>"

\* JS truthiness of an optional string
Truthy(s) == s # Absent /\ s # ""

\* String.prototype.includes
Includes(s, sub) ==
    \E k \in 1..(Len(s) - Len(sub) + 1) : SubSeq(s, k, k + Len(sub) - 1) = sub

\* Array.prototype.join
RECURSIVE Join(_, _)
Join(list, sep) ==
    IF list = <<>> THEN ""
    ELSE IF Len(list) = 1 THEN list[1]
    ELSE list[1] \o sep \o Join(Tail(list), sep)

\* the characters the screenshot file name keeps: [a-zA-Z0-9_-]
FileNameChars ==
    "abcdefghijklmnopqrstuvwxyzABCDEFGHIJKLMNOPQRSTUVWXYZ0123456789_-"

\* broker.name.replace(/[^a-zA-Z0-9_-]/g, "_")
RECURSIVE SanitizeName(_)
SanitizeName(name) ==
    IF name = "" THEN ""
    ELSE LET c == SubSeq(name, 1, 1)
         IN  (IF Includes(FileNameChars, c) THEN c ELSE "_")
             \o SanitizeName(SubSeq(name, 2, Len(name)))

\* `screenshots/${success ? "success" : "failure"}-${sanitized name}.png`
ScreenshotPath(success, name) ==
    "screenshots/" \o (IF success THEN "success" ELSE "failure") \o "-"
        \o SanitizeName(name) \o ".png"

\* the evidence reference of a capture that threw
FailedToSave == "failed_to_save"

(* ------------------------------ brokers -------------------------------- *)
\* brokers the workflow always searches for first, whatever the probe says
searchFirstBrokers ==
    {"Whitepages", "Spokeo", "BeenVerified", "Intelius", "TruthFinder",
     "MyLife", "Radaris", "US Search", "411.com", "411 Locate"}

\* catalog entries explored: an allow-listed broker without notes and a
\* broker whose notes carry a manual instruction marker
BrokerPool ==
    << [name |-> "US Search", notes |-> ""],
       [name |-> "Acme Data", notes |-> "Click the opt-out link"] >>

\* the catalog of n entries that takes the pool's entries in turn
Catalog(n) == [j \in 1..n |-> BrokerPool[((j - 1) % Len(BrokerPool)) + 1]]

\* the catalogs brokers.json may hold when the run starts
Catalogs == {Catalog(n) : n \in 1..MaxBrokers}

(* ------------------------- oracle fault messages ----------------------- *)
\* what a page call (goto, waitForLoadState, extract, act) throws
TimeoutFault == "Timeout 30000ms exceeded."
MkdirFault == "EACCES: permission denied, mkdir 'screenshots'"
WriteFault == "ENOSPC: no space left on device, write"

VARIABLES
    pc,               \* the statement the single thread of control is at
    exitCode,         \* -1 while the process runs, else process.exit's code
    brokersFile,      \* brokers.json: [valid, entries]
    brokers,          \* main: the catalog as loaded
    brokersToProcess, \* main: the brokers of this run
    user,             \* main: whether a user profile was obtained
    engineReady,      \* RemovalEngine.stagehand is initialised
    i,                \* main: loop index (1-based)
    session,          \* main: the in-memory RemovalSession
    sessionFile,      \* removal-session.json: <<>> or <<snapshot>>
    screenshotsDir,   \* whether the screenshots directory exists
    result,           \* removeFromBroker: the result under construction
    fault,            \* the error caught at a catch block
    faultCall,        \* history: the oracle call that threw it
    listingCheck,     \* findAndClickListing: the listing probes' answers
    errorCheck,       \* verifySubmission: answer of the error probe
    successCheck,     \* verifySubmission: answer of the success probe
    formCheck,        \* verifySubmission: answer of the still-on-form probe
    calls,            \* history: oracle calls issued in the current attempt
    started,          \* history: indices of the brokers whose attempt began
    ended,            \* history: how many attempts have ended
    reported,         \* history: the final report was printed
    catalogWrites,    \* history: brokers.json writes in the current attempt
    searchCheck,      \* checkIfNeedsSearch: answer of the structural probe
    oracleReply,      \* history: how the vision model call of this attempt went
    setup,            \* history: the setup steps main has completed
    profile,          \* history: the profiles UserSchema parsed and its verdicts
    run,              \* history: how many times the program has been started
    lastDiagnosis,    \* history: special instructions last written to brokers.json
    persisted,        \* history: the annotations this run has written to brokers.json
    peer,             \* another run on the same brokers.json: where it is, the
                      \* catalog it loaded, the annotation it has written
    fieldCheck,       \* fillRemovalForm: answer of the filled-fields probe
    readyCheck,       \* submitRemovalForm: answers of the readiness probes
    instruction       \* history: the text applySpecialInstructions acted on

vars == <<pc, exitCode, brokersFile, lastDiagnosis, persisted, peer, brokers, brokersToProcess,
          user, profile, run, setup, fieldCheck, readyCheck, instruction,
          engineReady, i, session, sessionFile, screenshotsDir, result, fault,
          faultCall, listingCheck, errorCheck, successCheck, formCheck, calls, started,
          ended, reported, catalogWrites, searchCheck, oracleReply>>

\* variables of the setup and of the orchestrator
mainVars == <<brokers, brokersToProcess, user, profile, run, setup, engineReady, i, session,
              sessionFile, started, ended, reported, exitCode>>
\* the caught error and where it came from
faultVars == <<fault, faultCall>>
\* probe answers held in locals of findAndClickListing and verifySubmission
verifyVars == <<listingCheck, errorCheck, successCheck, formCheck>>
\* probe answers held in locals of fillRemovalForm and submitRemovalForm, and
\* the instruction text of applySpecialInstructions
formVars == <<fieldCheck, readyCheck, instruction>>

(* ------------------------------ records -------------------------------- *)
NoBroker == [name |-> Absent, notes |-> Absent]

\* removeFromBroker's initial result: { broker, success: false, timestamp }
NewResult(broker) ==
    [broker |-> broker, success |-> FALSE, error |-> Absent, details |-> Absent,
     screenshot |-> Absent, aiAnalysis |-> <<>>]

NoAnswer == <<>>

\* longest time, in clock ticks, explored between two readings of the clock
MaxElapsed == 1

\* what new Date() gives when the session is created
ClockStart == 0

\* what new Date() may give when the clock showed t before: the wall clock
\* is taken not to be set back while the program runs
Now(t) == t..(t + MaxElapsed)

\* main's session before it is created
NoSession == [results |-> <<>>, startTime |-> <<>>, endTime |-> <<>>]

\* main lines 73-77: { user, results: [], startTime: new Date() }
NewSession(t) == [results |-> <<>>, startTime |-> <<t>>, endTime |-> <<>>]

\* no other run of the program is using brokers.json
NoPeer == [pc |-> "absent", brokers |-> <<>>, wrote |-> <<>>]

\* what brokers.json may hold when a run starts: a catalog that validates, or
\* content that does not parse or validate
StartFiles ==
    {[valid |-> TRUE, entries |-> c] : c \in Catalogs}
        \cup {[valid |-> FALSE, entries |-> <<>>]}

\* the state at process start, brokers.json being one of `files`
InitFrom(files) ==
    /\ pc = "loadBrokers"
    /\ exitCode = -1
    /\ brokersFile \in files
    /\ brokers = <<>>
    /\ brokersToProcess = <<>>
    /\ user = FALSE
    /\ setup = <<>>
    /\ profile = <<>>
    /\ run = 1
    /\ lastDiagnosis = <<>>
    /\ persisted = {}
    /\ peer = NoPeer
    /\ fieldCheck = NoAnswer
    /\ readyCheck = <<>>
    /\ instruction = <<>>
    /\ engineReady = FALSE
    /\ i = 1
    /\ session = NoSession
    /\ sessionFile = <<>>
    /\ screenshotsDir \in BOOLEAN
    /\ result = NewResult(NoBroker)
    /\ fault = Absent
    /\ faultCall = Absent
    /\ listingCheck = <<>>
    /\ errorCheck = NoAnswer
    /\ successCheck = NoAnswer
    /\ formCheck = NoAnswer
    /\ searchCheck = NoAnswer
    /\ oracleReply = NoAnswer
    /\ calls = <<>>
    /\ started = <<>>
    /\ ended = 0
    /\ reported = FALSE
    /\ catalogWrites = 0

Init == InitFrom(StartFiles)

(* ------------------------------- setup --------------------------------- *)
\* variant of Exit that always reports a clean end
Exit_Clean(code) == pc' = "exit" /\ exitCode' = 0

\* process.exit(code)
Exit(code) == pc' = "exit" /\ exitCode' = code

\* main has completed the setup step `step`
Done(step) == setup' = Append(setup, step)

\* loadBrokers: read and validate brokers.json, exit 1 on any failure
loadBrokers ==
    /\ pc = "loadBrokers"
    /\ IF brokersFile.valid
       THEN /\ brokers' = brokersFile.entries
            /\ Done("catalog")
            /\ pc' = "loadUserData"
            /\ UNCHANGED exitCode
       ELSE /\ Exit(1)
            /\ UNCHANGED <<brokers, setup>>
    /\ UNCHANGED <<brokersFile, lastDiagnosis, persisted, peer, brokersToProcess, user, profile, run, engineReady, i, session,
                   sessionFile, screenshotsDir, result, faultVars, verifyVars,
                   calls, started, ended, reported, catalogWrites, searchCheck,
                   oracleReply, formVars>>

\* main: brokersToProcess = selectedBroker ? [selectedBroker] : brokers
\* (the record of the profile parses is not kept beyond this step)
selectSingleBroker ==
    /\ pc = "selectSingleBroker"
    /\ \E choice \in 0..Len(brokers) :
          brokersToProcess' = IF choice = 0 THEN brokers ELSE <<brokers[choice]>>
    /\ pc' = "confirmRemoval"
    /\ profile' = <<>>
    /\ UNCHANGED <<exitCode, brokersFile, lastDiagnosis, persisted, peer, brokers, user, run, setup, engineReady, i,
                   session, sessionFile, screenshotsDir, result, faultVars,
                   verifyVars, calls, started, ended, reported, catalogWrites,
                   searchCheck, oracleReply, formVars>>

\* main: a declined confirmation ends the process with code 0
confirmRemoval ==
    /\ pc = "confirmRemoval"
    /\ \E shouldProceed \in BOOLEAN :
          IF shouldProceed
          THEN Done("confirmed") /\ pc' = "initialize" /\ UNCHANGED exitCode
          ELSE Exit(0) /\ UNCHANGED setup
    /\ UNCHANGED <<brokersFile, lastDiagnosis, persisted, peer, brokers, brokersToProcess, user, profile, run, engineReady, i,
                   session, sessionFile, screenshotsDir, result, faultVars,
                   verifyVars, calls, started, ended, reported,
                   catalogWrites, searchCheck, oracleReply, formVars>>

\* main: engine.initialize(), exit 1 when it throws; then the session is created
initialize ==
    /\ pc = "initialize"
    /\ \E ok \in BOOLEAN :
          IF ok
          THEN /\ engineReady' = TRUE
               /\ Done("engine")
               /\ session' = NewSession(ClockStart)
               /\ i' = 1
               /\ pc' = "loop"
               /\ UNCHANGED exitCode
          ELSE /\ Exit(1)
               /\ UNCHANGED <<engineReady, session, i, setup>>
    /\ UNCHANGED <<brokersFile, lastDiagnosis, persisted, peer, brokers, brokersToProcess, user, profile, run, sessionFile,
                   screenshotsDir, result, faultVars, verifyVars, calls,
                   started, ended, reported, catalogWrites, searchCheck,
                   oracleReply, formVars>>

(* --------------------------- oracle calls ------------------------------ *)
\* variables no step of removeFromBroker touches
orchestratorVars == <<exitCode, brokers, brokersToProcess, user, profile, run, setup, engineReady, i,
                      session, sessionFile, started, ended, reported>>

broker == result.broker

\* variant of Throw without the broker boundary: the exception is unhandled
\* and ends the process
Throw_Unhandled(label, msg) == fault' = msg /\ faultCall' = label /\ pc' = "exit"

\* an exception thrown by oracle call `label` inside removeFromBroker's try
\* block: control goes to the catch block of line 209
Throw(label, msg) == fault' = msg /\ faultCall' = label /\ pc' = "catch"

\* variant of Act in which the workflow inspects the ActResult and gives up
\* the attempt when the action reports failure
Act_Checked(label, next) ==
    /\ calls' = Append(calls, label)
    /\ \/ pc' = next /\ UNCHANGED faultVars
       \/ pc' = "returned" /\ UNCHANGED faultVars
       \/ fault' = TimeoutFault /\ faultCall' = label /\ pc' = "catch"

\* await page.act(instruction): the call returns an ActResult that the code
\* discards, whether or not the action took effect, or it throws
Act(label, next) ==
    /\ calls' = Append(calls, label)
    /\ \/ pc' = next /\ UNCHANGED faultVars
       \/ Throw(label, TimeoutFault)

\* await page.extract(...) that throws
ExtractThrows(label) ==
    /\ calls' = Append(calls, label)
    /\ Throw(label, TimeoutFault)

\* await page.extract(...) that answers; the caller branches on the answer
ExtractAnswers(label, next) ==
    /\ calls' = Append(calls, label)
    /\ pc' = next
    /\ UNCHANGED faultVars

(* ------------------------- removeFromBroker ---------------------------- *)
\* variant of LoopReady that starts the next call while the last one has
\* returned but its result is not yet pushed
LoopReady_Eager == pc \in {"loop", "returned"}

\* main's for loop awaits removeFromBroker and pushes its result before
\* the next iteration begins (part_001 83-101)
LoopReady == pc = "loop"

\* lines 97-113: the directory check and the initial result; mkdirSync is
\* outside the try block, so its exception leaves removeFromBroker
removeFromBrokerStart ==
    /\ LoopReady
    /\ i <= Len(brokersToProcess)
    /\ started' = Append(started, i)
    /\ calls' = <<>>
    /\ catalogWrites' = 0
    /\ UNCHANGED <<verifyVars, searchCheck, oracleReply, formVars>>
    /\ faultCall' = Absent
    /\ \/ /\ screenshotsDir
          /\ result' = NewResult(brokersToProcess[i])
          /\ fault' = Absent
          /\ pc' = "goto"
          /\ UNCHANGED screenshotsDir
       \/ /\ ~screenshotsDir
          /\ screenshotsDir' = TRUE
          /\ result' = NewResult(brokersToProcess[i])
          /\ fault' = Absent
          /\ pc' = "goto"
       \/ /\ ~screenshotsDir
          /\ fault' = MkdirFault
          /\ pc' = "mainCatch"
          /\ UNCHANGED <<screenshotsDir, result>>
    /\ UNCHANGED <<exitCode, brokersFile, lastDiagnosis, persisted, peer, brokers, brokersToProcess, user, profile, run, setup,
                   engineReady, i, session, sessionFile, ended, reported>>

\* variant of navigate that retries a failed page.goto instead of throwing
navigate_Retrying ==
    /\ pc = "goto"
    /\ calls' = Append(calls, "navigate")
    /\ \/ pc' = "checkIfNeedsSearch"
       \/ pc' = "goto"
    /\ UNCHANGED <<orchestratorVars, brokersFile, lastDiagnosis, persisted, peer, screenshotsDir, result,
                   faultVars, verifyVars, catalogWrites, searchCheck, oracleReply, formVars>>

\* lines 118-123: page.goto(opt_out_url) and the wait for network idle
navigate ==
    /\ pc = "goto"
    /\ calls' = Append(calls, "navigate")
    /\ \/ pc' = "checkIfNeedsSearch" /\ UNCHANGED faultVars
       \/ Throw("navigate", TimeoutFault)
    /\ UNCHANGED <<orchestratorVars, brokersFile, lastDiagnosis, persisted, peer, screenshotsDir, result,
                   verifyVars, catalogWrites, searchCheck, oracleReply, formVars>>

\* variant of NeedsSearch that trusts the probe alone
NeedsSearch_ProbeOnly(needsSearchFirst, name) == needsSearchFirst

\* checkIfNeedsSearch's return value
NeedsSearch(needsSearchFirst, name) ==
    needsSearchFirst \/ name \in searchFirstBrokers

\* what the structural probe may answer
SearchAnswers == [needsSearchFirst : BOOLEAN]

\* lines 125-128 and 232-251: the structural probe and the branch on it
checkIfNeedsSearch ==
    /\ pc = "checkIfNeedsSearch"
    /\ \/ \E ans \in SearchAnswers :
             /\ searchCheck' = <<ans>>
             /\ ExtractAnswers("extract:needsSearch",
                   IF NeedsSearch(ans.needsSearchFirst, broker.name)
                   THEN "performSearch" ELSE "instructions")
       \/ ExtractThrows("extract:needsSearch") /\ UNCHANGED searchCheck
    /\ UNCHANGED <<orchestratorVars, brokersFile, lastDiagnosis, persisted, peer, screenshotsDir, result,
                   verifyVars, catalogWrites, oracleReply, formVars>>

\* variant of performSearch that probes again whether a search is needed
performSearch_Probing ==
    /\ pc = "performSearch"
    /\ Act("act:search", "checkIfNeedsSearch")
    /\ searchCheck' = NoAnswer
    /\ UNCHANGED <<orchestratorVars, brokersFile, lastDiagnosis, persisted, peer, screenshotsDir, result,
                   verifyVars, catalogWrites, oracleReply, formVars>>

\* lines 129-133 and 253-266: one search action, then the wait
performSearch ==
    /\ pc = "performSearch"
    /\ Act("act:search", "listing")
    /\ searchCheck' = NoAnswer
    /\ UNCHANGED <<orchestratorVars, brokersFile, lastDiagnosis, persisted, peer, screenshotsDir, result,
                   verifyVars, catalogWrites, oracleReply, formVars>>

\* variant of ListingHit that is content with either flag
ListingHit_Either(found, clicked) == found \/ clicked

\* variant of ListingHit that does not require the click
ListingHit_FoundOnly(found, clicked) == found

\* whether a listing probe reports a listing that was found and clicked
ListingHit(found, clicked) == found /\ clicked

ListingAnswers == [found : BOOLEAN, clicked : BOOLEAN]

\* lines 270-286: the exact-match listing probe
findListing ==
    /\ pc = "listing"
    /\ \/ \E ans \in ListingAnswers :
             /\ listingCheck' = <<ans>>
             /\ ExtractAnswers("extract:listing",
                   IF ListingHit(ans.found, ans.clicked) THEN "instructions"
                   ELSE "listingFallback")
       \/ ExtractThrows("extract:listing") /\ UNCHANGED listingCheck
    /\ UNCHANGED <<orchestratorVars, brokersFile, lastDiagnosis, persisted, peer, screenshotsDir, result,
                   errorCheck, successCheck, formCheck, catalogWrites, searchCheck, oracleReply, formVars>>

ListingNotFoundError == "Could not find user listing"

\* the result removeFromBroker returns when no listing was found
ListingNotFound(r) == [r EXCEPT !.error = ListingNotFoundError]

\* lines 288-297 and 138-146: the relaxed probe; when it misses too the
\* attempt returns from inside the try block
findListingFallback ==
    /\ pc = "listingFallback"
    /\ \/ \E ans \in ListingAnswers :
             /\ calls' = Append(calls, "extract:listingFallback")
             /\ listingCheck' = Append(listingCheck, ans)
             /\ UNCHANGED faultVars
             /\ IF ListingHit(ans.found, ans.clicked)
                THEN pc' = "instructions" /\ UNCHANGED result
                ELSE pc' = "returned" /\ result' = ListingNotFound(result)
       \/ /\ ExtractThrows("extract:listingFallback")
          /\ UNCHANGED <<result, listingCheck>>
    /\ UNCHANGED <<orchestratorVars, brokersFile, lastDiagnosis, persisted, peer, screenshotsDir, errorCheck,
                   successCheck, formCheck, catalogWrites, searchCheck, oracleReply, formVars>>

\* the markers that make broker notes count as instructions (line 149, 389)
HasInstructionMarker(notes) ==
    /\ Truthy(notes)
    /\ \/ Includes(notes, "AI Analysis")
       \/ Includes(notes, "Enter your email")
       \/ Includes(notes, "Click the")

\* whether pattern p occurs in s at index k
StartsAt(s, k, p) ==
    k + Len(p) - 1 <= Len(s) /\ SubSeq(s, k, k + Len(p) - 1) = p

IsDigit(c) == Includes("0123456789", c)

\* index after the longest run of digits of s that starts at k
RECURSIVE DigitsEnd(_, _)
DigitsEnd(s, k) ==
    IF k <= Len(s) /\ IsDigit(SubSeq(s, k, k)) THEN DigitsEnd(s, k + 1) ELSE k

\* index of the last character of the line of s that index k is on
RECURSIVE LineEnd(_, _)
LineEnd(s, k) ==
    IF k < Len(s) /\ SubSeq(s, k + 1, k + 1) # "\n" THEN LineEnd(s, k + 1) ELSE k

AIPrefix == "AI Analysis ("
AISuffix == "/10): "

\* where group 1 of /AI Analysis \(\d+\/10\): (.+)/ starts when the pattern
\* matches s at index k, else 0
AIGroupStart(s, k) ==
    IF ~StartsAt(s, k, AIPrefix) THEN 0
    ELSE LET d == k + Len(AIPrefix)
             e == DigitsEnd(s, d)
             g == e + Len(AISuffix)
         IN  IF e > d /\ StartsAt(s, e, AISuffix) /\ g <= Len(s)
                /\ SubSeq(s, g, g) # "\n"
             THEN g ELSE 0

\* notes.match(/AI Analysis \(\d+\/10\): (.+)/)[1] of the leftmost match,
\* "" when there is no match
AIMatch(notes) ==
    LET hits == {k \in 1..Len(notes) : AIGroupStart(notes, k) > 0}
    IN  IF hits = {} THEN ""
        ELSE LET k == CHOOSE h \in hits : \A o \in hits : h <= o
                 g == AIGroupStart(notes, k)
             IN  SubSeq(notes, g, LineEnd(notes, g))

\* variant of InstructionText that replays the notes as they are
InstructionText_WholeNotes(notes) == notes

\* applySpecialInstructions: the text to replay, "" for none (lines 392-403)
InstructionText(notes) ==
    IF Includes(notes, "AI Analysis") THEN AIMatch(notes) ELSE notes

\* lines 148-152 and 387-414: at most one act call replaying the notes
\* (findAndClickListing has returned: its locals are gone)
applySpecialInstructions ==
    /\ pc = "instructions"
    /\ IF HasInstructionMarker(broker.notes)
          /\ Truthy(InstructionText(broker.notes))
       THEN /\ Act("act:instructions", "fillAct")
            /\ instruction' = <<InstructionText(broker.notes)>>
       ELSE /\ pc' = "fillAct"
            /\ UNCHANGED <<calls, faultVars, instruction>>
    /\ listingCheck' = <<>>
    /\ searchCheck' = NoAnswer
    /\ UNCHANGED <<orchestratorVars, brokersFile, lastDiagnosis, persisted, peer, screenshotsDir, result,
                   errorCheck, successCheck, formCheck, catalogWrites,
                   oracleReply, fieldCheck, readyCheck>>

(* ------------------------------ fill, consent -------------------------- *)
\* lines 300-322: the broad fill action
fillAct ==
    /\ pc = "fillAct"
    /\ Act("act:fill", "fillCheck")
    /\ UNCHANGED <<orchestratorVars, brokersFile, lastDiagnosis, persisted, peer, screenshotsDir, result,
                   verifyVars, catalogWrites, searchCheck, oracleReply, formVars>>

\* what the filled-fields probe may answer (lines 325-332)
FieldAnswers == [allFieldsFilled : BOOLEAN]

\* variant of AfterFieldCheck that re-does the broad fill and probes again
AfterFieldCheck_Looping(ans) ==
    IF ans.allFieldsFilled THEN "checkboxes" ELSE "fillAct"

\* where fillRemovalForm goes after the filled-fields probe (lines 334-341)
AfterFieldCheck(ans) ==
    IF ans.allFieldsFilled THEN "checkboxes" ELSE "fillFix"

\* lines 324-341: the filled-fields probe and the branch on it
fillCheck ==
    /\ pc = "fillCheck"
    /\ \/ \E ans \in FieldAnswers :
             /\ ExtractAnswers("extract:fieldCheck", AfterFieldCheck(ans))
             /\ fieldCheck' = <<ans>>
       \/ ExtractThrows("extract:fieldCheck") /\ UNCHANGED fieldCheck
    /\ UNCHANGED <<orchestratorVars, brokersFile, lastDiagnosis, persisted, peer, screenshotsDir, result,
                   verifyVars, catalogWrites, searchCheck, oracleReply, readyCheck, instruction>>

\* lines 336-338: the one corrective fill action
fillFix ==
    /\ pc = "fillFix"
    /\ Act("act:fillFix", "checkboxes")
    /\ UNCHANGED <<orchestratorVars, brokersFile, lastDiagnosis, persisted, peer, screenshotsDir, result,
                   verifyVars, catalogWrites, searchCheck, oracleReply, formVars>>

\* lines 347-370: the checkbox probe; its answer is only logged
handleCheckboxes ==
    /\ pc = "checkboxes"
    /\ \/ ExtractAnswers("extract:checkboxes", "radios")
       \/ ExtractThrows("extract:checkboxes")
    /\ UNCHANGED <<orchestratorVars, brokersFile, lastDiagnosis, persisted, peer, screenshotsDir, result,
                   verifyVars, catalogWrites, searchCheck, oracleReply, formVars>>

\* lines 372-385: the radio-button probe; its answer is only logged
handleRadios ==
    /\ pc = "radios"
    /\ \/ ExtractAnswers("extract:radios", "submitFill") /\ fieldCheck' = NoAnswer
       \/ ExtractThrows("extract:radios") /\ UNCHANGED fieldCheck
    /\ UNCHANGED <<orchestratorVars, brokersFile, lastDiagnosis, persisted, peer, screenshotsDir, result,
                   verifyVars, catalogWrites, searchCheck, oracleReply, readyCheck, instruction>>

(* -------------------------------- submit ------------------------------- *)
\* line 418: the corrective fill pass that opens submitRemovalForm
submitFill ==
    /\ pc = "submitFill"
    /\ Act("act:submitFill", "submitCheck")
    /\ UNCHANGED <<orchestratorVars, brokersFile, lastDiagnosis, persisted, peer, screenshotsDir, result,
                   verifyVars, catalogWrites, searchCheck, oracleReply, formVars>>

\* where submitRemovalForm goes after the readiness probe (lines 431-456)
AfterFormCheck(formReady, unchecked) ==
    IF formReady THEN "submitClick"
    ELSE IF unchecked > 0 THEN "submitFix"
    ELSE "verifyError"

\* what the readiness probe may answer (lines 421-429); uncheckedCheckboxes
\* is the length of the array
ReadyAnswers == [formReady : BOOLEAN, uncheckedCheckboxes : 0..1]

\* what the re-check may answer (lines 440-446)
RecheckAnswers == [formReady : BOOLEAN]

\* lines 420-456: the readiness probe
submitCheck ==
    /\ pc = "submitCheck"
    /\ \/ \E ans \in ReadyAnswers :
             /\ ExtractAnswers("extract:formReady",
                    AfterFormCheck(ans.formReady, ans.uncheckedCheckboxes))
             /\ readyCheck' = <<ans>>
       \/ ExtractThrows("extract:formReady") /\ UNCHANGED readyCheck
    /\ UNCHANGED <<orchestratorVars, brokersFile, lastDiagnosis, persisted, peer, screenshotsDir, result,
                   verifyVars, catalogWrites, searchCheck, oracleReply, fieldCheck, instruction>>

\* line 436: the corrective checkbox action
submitFix ==
    /\ pc = "submitFix"
    /\ Act("act:checkboxFix", "submitRecheck")
    /\ UNCHANGED <<orchestratorVars, brokersFile, lastDiagnosis, persisted, peer, screenshotsDir, result,
                   verifyVars, catalogWrites, searchCheck, oracleReply, formVars>>

\* variant of AfterRecheck that clicks submit whatever the re-check says
AfterRecheck_Submitting(ans) == "submitClick"

\* where submitRemovalForm goes after the re-check (lines 448-451)
AfterRecheck(ans) == IF ans.formReady THEN "submitClick" ELSE "verifyError"

\* lines 440-451: the single re-check
submitRecheck ==
    /\ pc = "submitRecheck"
    /\ \/ \E ans \in RecheckAnswers :
             /\ ExtractAnswers("extract:formRecheck", AfterRecheck(ans))
             /\ readyCheck' = Append(readyCheck, ans)
       \/ ExtractThrows("extract:formRecheck") /\ UNCHANGED readyCheck
    /\ UNCHANGED <<orchestratorVars, brokersFile, lastDiagnosis, persisted, peer, screenshotsDir, result,
                   verifyVars, catalogWrites, searchCheck, oracleReply, fieldCheck, instruction>>

\* lines 458-462: the submit click and the wait for network idle
submitClick ==
    /\ pc = "submitClick"
    /\ Act("act:submit", "verifyError")
    /\ UNCHANGED <<orchestratorVars, brokersFile, lastDiagnosis, persisted, peer, screenshotsDir, result,
                   verifyVars, catalogWrites, searchCheck, oracleReply, formVars>>

(* ------------------------------ AIAnalyzer ----------------------------- *)
\* a JS number that may be NaN: <<>> is NaN, <<n>> is the number n
NaN == <<>>
Num(n) == <<n>>
\* x >= n in JS: false when x is NaN
NumGE(x, n) == x # NaN /\ x[1] >= n
\* `${x}`
NumText(x) == IF x = NaN THEN "NaN" ELSE ToString(x[1])

UpperChars == "ABCDEFGHIJKLMNOPQRSTUVWXYZ"
LowerChars == "abcdefghijklmnopqrstuvwxyz"

\* first index of the one-character string c in s, 0 when absent
IndexOf(s, c) ==
    IF \E k \in 1..Len(s) : SubSeq(s, k, k) = c
    THEN CHOOSE k \in 1..Len(s) :
            SubSeq(s, k, k) = c /\ \A j \in 1..(k - 1) : SubSeq(s, j, j) # c
    ELSE 0

\* String.prototype.toLowerCase
RECURSIVE ToLower(_)
ToLower(s) ==
    IF s = "" THEN ""
    ELSE LET c == SubSeq(s, 1, 1)
             u == IndexOf(UpperChars, c)
         IN  (IF u > 0 THEN SubSeq(LowerChars, u, u) ELSE c)
             \o ToLower(SubSeq(s, 2, Len(s)))

IsSpace(c) == c = " " \/ c = "\t" \/ c = "\n" \/ c = "\r"

\* String.prototype.trim
RECURSIVE Trim(_)
Trim(s) ==
    IF s = "" THEN ""
    ELSE IF IsSpace(SubSeq(s, 1, 1)) THEN Trim(SubSeq(s, 2, Len(s)))
    ELSE IF IsSpace(SubSeq(s, Len(s), Len(s))) THEN Trim(SubSeq(s, 1, Len(s) - 1))
    ELSE s

\* String.prototype.split with a one-character separator
RECURSIVE Split(_, _)
Split(s, sep) ==
    LET k == IndexOf(s, sep)
    IN  IF k = 0 THEN <<s>>
        ELSE <<SubSeq(s, 1, k - 1)>> \o Split(SubSeq(s, k + 1, Len(s)), sep)

\* value of a run of decimal digits
RECURSIVE DigitsValue(_)
DigitsValue(s) ==
    IF s = "" THEN 0
    ELSE 10 * DigitsValue(SubSeq(s, 1, Len(s) - 1))
         + (IndexOf("0123456789", SubSeq(s, Len(s), Len(s))) - 1)

\* parseInt(s): leading white space, an optional sign, then the longest run
\* of digits; NaN when there is no digit
ParseInt(s) ==
    LET t == Trim(s)
        signed == t # "" /\ SubSeq(t, 1, 1) \in {"-", "+"}
        d == IF signed THEN 2 ELSE 1
        e == DigitsEnd(t, d)
    IN  IF e = d THEN NaN
        ELSE LET v == DigitsValue(SubSeq(t, d, e - 1))
             IN  Num(IF signed /\ SubSeq(t, 1, 1) = "-" THEN 0 - v ELSE v)

\* Math.min and Math.max: NaN when an argument is NaN
NumMin(a, b) == IF a = NaN \/ b = NaN THEN NaN ELSE IF a[1] <= b[1] THEN a ELSE b
NumMax(a, b) == IF a = NaN \/ b = NaN THEN NaN ELSE IF a[1] >= b[1] THEN a ELSE b

\* variant of ClampConfidence without the lower bound
ClampConfidence_Upper(conf) == NumMin(Num(10), conf)

\* Math.max(1, Math.min(10, conf)) (line 156)
ClampConfidence(conf) == NumMax(Num(1), NumMin(Num(10), conf))

\* line.split(':').slice(1).join(':').trim()
AfterLabel(line) == Trim(Join(Tail(Split(line, ":")), ":"))

\* steps.split(',').map(trim).filter(nonempty)
RECURSIVE NonEmptyTrimmed(_)
NonEmptyTrimmed(parts) ==
    IF parts = <<>> THEN <<>>
    ELSE (IF Trim(parts[1]) = "" THEN <<>> ELSE <<Trim(parts[1])>>)
         \o NonEmptyTrimmed(Tail(parts))

\* parseInt(line.split(':')[1]?.trim() || '5')
ConfidenceOf(line) ==
    LET parts == Split(line, ":")
        text == IF Len(parts) >= 2 THEN Trim(parts[2]) ELSE ""
    IN  ParseInt(IF text = "" THEN "5" ELSE text)

\* the parser's variables before the first line (lines 140-144)
ParseStart ==
    [problem |-> "", suggestedFix |-> "", nextSteps |-> <<>>, confidence |-> Num(5)]

\* one iteration of the loop over the lines (lines 146-158)
ParseLine(acc, line) ==
    LET low == ToLower(line)
    IN  IF Includes(low, "problem:") \/ Includes(low, "issue:")
        THEN [acc EXCEPT !.problem = AfterLabel(line)]
        ELSE IF Includes(low, "fix:") \/ Includes(low, "solution:")
        THEN [acc EXCEPT !.suggestedFix = AfterLabel(line)]
        ELSE IF Includes(low, "steps:") \/ Includes(low, "next:")
        THEN [acc EXCEPT !.nextSteps = NonEmptyTrimmed(Split(AfterLabel(line), ","))]
        ELSE IF Includes(low, "confidence:")
        THEN [acc EXCEPT !.confidence = ClampConfidence(ConfidenceOf(line))]
        ELSE acc

RECURSIVE ParseLines(_, _)
ParseLines(acc, lines) ==
    IF lines = <<>> THEN acc ELSE ParseLines(ParseLine(acc, lines[1]), Tail(lines))

\* response.substring(0, 200) + "..."
ProblemFallback(response) ==
    SubSeq(response, 1, IF Len(response) < 200 THEN Len(response) ELSE 200) \o "..."

\* the try block of parseAnalysisResponse (lines 138-174)
ParsedAnalysis(response) ==
    LET acc == ParseLines(ParseStart, Split(response, "\n"))
        fix == IF acc.suggestedFix = "" THEN "Manual review required"
               ELSE acc.suggestedFix
    IN  [problem |-> IF acc.problem = "" THEN ProblemFallback(response)
                     ELSE acc.problem,
         suggestedFix |-> fix,
         nextSteps |-> acc.nextSteps,
         specialInstructions |-> fix,
         confidence |-> acc.confidence]

\* a completion whose message content is null: response.split throws
NullContent == "<null>"

\* what parseAnalysisResponse returns from its catch block (lines 175-183)
ParseFailed ==
    [problem |-> "Failed to parse analysis", suggestedFix |-> "Manual review required",
     nextSteps |-> <<"Check screenshot manually">>, specialInstructions |-> "",
     confidence |-> Num(0)]

\* parseAnalysisResponse (lines 136-184)
parseAnalysisResponse(response) ==
    IF response = NullContent THEN ParseFailed ELSE ParsedAnalysis(response)

\* variant of AnalysisFailed whose placeholder is confident enough to apply
AnalysisFailed_Confident ==
    [problem |-> "Analysis failed", suggestedFix |-> "Manual review required",
     nextSteps |-> <<"Check screenshot manually">>,
     specialInstructions |-> "Manual review required", confidence |-> Num(7)]

\* what analyzeFailureScreenshot returns from its catch block (lines 85-94)
AnalysisFailed ==
    [problem |-> "Analysis failed", suggestedFix |-> "Manual review required",
     nextSteps |-> <<"Check screenshot manually">>, specialInstructions |-> "",
     confidence |-> Num(0)]

\* answers of the vision model explored
Responses ==
    { "Problem: consent box unchecked\nFix: Tick the consent box\nConfidence: 8",
      "The page shows a captcha.\nConfidence: 4/10" }

\* the annotation updateBrokerWithAnalysis appends (line 351)
AnnotatedNotes(notes, analysis) ==
    notes \o "\n\nAI Analysis (" \o NumText(analysis.confidence) \o "/10): "
          \o analysis.specialInstructions

\* variant of ShouldApply with a lower threshold
ShouldApply_Lenient(analysis) == NumGE(analysis.confidence, 5)

\* whether a diagnosis is applied to the broker (line 350)
ShouldApply(analysis) == NumGE(analysis.confidence, 6)

\* what a write of saveUpdatedBroker adds to the entry of broker `name`:
\* the text line 351 appends to the notes
Persisted(name, analysis) ==
    [name |-> name, text |-> AnnotatedNotes("", analysis)]

\* brokers.findIndex(b => b.name === name), 0 for -1
FindIndex(entries, name) ==
    IF \E k \in 1..Len(entries) : entries[k].name = name
    THEN CHOOSE k \in 1..Len(entries) :
            entries[k].name = name /\ \A j \in 1..(k - 1) : entries[j].name # name
    ELSE 0

\* variant of SavedCatalog that overwrites the first entry
SavedCatalog_First(entries, updatedBroker) ==
    [entries EXCEPT ![1] = updatedBroker]

\* saveUpdatedBroker: the catalog it writes, given the catalog it read
SavedCatalog(entries, updatedBroker) ==
    [entries EXCEPT ![FindIndex(entries, updatedBroker.name)] = updatedBroker]

(* -------------------------------- verify ------------------------------- *)
ErrorAnswers ==
    { [foundErrorIndicators |-> FALSE, errorMessages |-> <<>>],
      [foundErrorIndicators |-> TRUE,
       errorMessages |-> <<"Missing First Name", "Invalid email">>] }

SuccessAnswers ==
    { [foundSuccessText |-> FALSE, successText |-> ""],
      [foundSuccessText |-> TRUE,
       successText |-> "Thank you, your request has been submitted"] }

\* nothing visible, or exactly one of the three signs of a form
FormAnswers ==
    { [stillOnForm |-> a, hasSubmitButton |-> b, hasFormFields |-> c,
       pageType |-> "opt-out form"] :
         <<a, b, c>> \in { <<FALSE, FALSE, FALSE>>, <<TRUE, FALSE, FALSE>>,
                           <<FALSE, TRUE, FALSE>>, <<FALSE, FALSE, TRUE>> } }

\* the values verifySubmission returns (lines 490-549)
ErrorVerdict(ans) ==
    [success |-> FALSE,
     message |-> "Form errors detected: " \o Join(ans.errorMessages, ", ")]
\* variant of SuccessVerdict without the "Success confirmed: " prefix
SuccessVerdict_Bare(ans) == [success |-> TRUE, message |-> ans.successText]
\* line 524
SuccessVerdict(ans) ==
    [success |-> TRUE, message |-> "Success confirmed: " \o ans.successText]
\* variant of StillOnForm that looks at the first sign only
StillOnForm_FlagOnly(ans) == ans.stillOnForm
\* line 538
StillOnForm(ans) == ans.stillOnForm \/ ans.hasSubmitButton \/ ans.hasFormFields
\* variant of FormVerdict that takes a page without a form for a success
FormVerdict_Optimistic(ans) ==
    IF StillOnForm(ans)
    THEN [success |-> FALSE,
          message |-> "Still on form page - submission failed. Page type: "
                      \o ans.pageType]
    ELSE [success |-> TRUE, message |-> "No form left on the page"]

FormVerdict(ans) ==
    IF StillOnForm(ans)
    THEN [success |-> FALSE,
          message |-> "Still on form page - submission failed. Page type: "
                      \o ans.pageType]
    ELSE [success |-> FALSE,
          message |-> "Unable to verify success - no clear success indicators found"]

\* variant of ErrorsDetected that never lets the error probe decide
ErrorsDetected_Ignored(ans) == FALSE

\* line 490: whether the error probe ends the classification
ErrorsDetected(ans) == ans.foundErrorIndicators

\* line 523: whether the success probe ends the classification
SuccessDetected(ans) == ans.foundSuccessText

\* lines 166-167: the verdict is copied into the result
WithVerification(r, verification) ==
    [r EXCEPT !.success = verification.success, !.details = verification.message]

\* lines 469-495: the error probe
verifyError ==
    /\ pc = "verifyError"
    /\ \/ \E ans \in ErrorAnswers :
             /\ calls' = Append(calls, "extract:errorCheck")
             /\ errorCheck' = <<ans>>
             /\ UNCHANGED faultVars
             /\ IF ErrorsDetected(ans)
                THEN /\ result' = WithVerification(result, ErrorVerdict(ans))
                     /\ pc' = "screenshot"
                ELSE /\ pc' = "verifySuccess"
                     /\ UNCHANGED result
       \/ ExtractThrows("extract:errorCheck") /\ UNCHANGED <<result, errorCheck>>
    /\ readyCheck' = <<>>
    /\ UNCHANGED <<orchestratorVars, brokersFile, lastDiagnosis, persisted, peer, screenshotsDir, listingCheck,
                   successCheck, formCheck, catalogWrites, searchCheck, oracleReply,
                   fieldCheck, instruction>>

\* lines 497-525: the success probe
verifySuccess ==
    /\ pc = "verifySuccess"
    /\ \/ \E ans \in SuccessAnswers :
             /\ calls' = Append(calls, "extract:successCheck")
             /\ successCheck' = <<ans>>
             /\ UNCHANGED faultVars
             /\ IF SuccessDetected(ans)
                THEN /\ result' = WithVerification(result, SuccessVerdict(ans))
                     /\ pc' = "screenshot"
                ELSE /\ pc' = "verifyForm"
                     /\ UNCHANGED result
       \/ ExtractThrows("extract:successCheck") /\ UNCHANGED <<result, successCheck>>
    /\ UNCHANGED <<orchestratorVars, brokersFile, lastDiagnosis, persisted, peer, screenshotsDir, listingCheck,
                   errorCheck, formCheck, catalogWrites, searchCheck, oracleReply, formVars>>

\* lines 527-549: the still-on-form probe and the default
verifyForm ==
    /\ pc = "verifyForm"
    /\ \/ \E ans \in FormAnswers :
             /\ calls' = Append(calls, "extract:formStill")
             /\ formCheck' = <<ans>>
             /\ UNCHANGED faultVars
             /\ result' = WithVerification(result, FormVerdict(ans))
             /\ pc' = "screenshot"
       \/ ExtractThrows("extract:formStill") /\ UNCHANGED <<result, formCheck>>
    /\ UNCHANGED <<orchestratorVars, brokersFile, lastDiagnosis, persisted, peer, screenshotsDir, listingCheck,
                   errorCheck, successCheck, catalogWrites, searchCheck, oracleReply, formVars>>

(* ------------------------- evidence and analysis ----------------------- *)
\* variant of ScreenshotSaved that accepts any evidence reference
ScreenshotSaved_AnyReference(r) == Truthy(r.screenshot)

\* line 188: whether the failure is handed to the analyzer
ScreenshotSaved(r) == Truthy(r.screenshot) /\ r.screenshot # FailedToSave

\* variant of AfterScreenshot that hands every attempt with evidence to the
\* analyzer, whatever its verdict
AfterScreenshot_AnyVerdict(r) ==
    IF ScreenshotSaved(r) THEN "analyze" ELSE "returned"

\* lines 182-188: where the attempt goes after the snapshot
AfterScreenshot(r) ==
    IF ~r.success /\ ScreenshotSaved(r) THEN "analyze" ELSE "returned"

\* variant of WithScreenshot in which a failed snapshot fails the attempt
WithScreenshot_Downgrading(r, captured, path) ==
    IF captured THEN [r EXCEPT !.screenshot = path]
    ELSE [r EXCEPT !.screenshot = FailedToSave, !.success = FALSE,
                   !.error = "Screenshot failed"]

\* lines 171-180 and 216-225: the evidence reference a snapshot leaves on the
\* result; a capture or file write that throws changes nothing else
WithScreenshot(r, captured, path) ==
    [r EXCEPT !.screenshot = IF captured THEN path ELSE FailedToSave]

\* lines 169-180: the snapshot after a verified attempt.  The probe answers
\* were locals of verifySubmission and are gone by now
takeScreenshot ==
    /\ pc = "screenshot"
    /\ calls' = Append(calls, "screenshot")
    /\ \E captured \in BOOLEAN :
          result' = WithScreenshot(result, captured,
                        ScreenshotPath(result.success, broker.name))
    /\ pc' = AfterScreenshot(result')
    /\ listingCheck' = <<>>
    /\ errorCheck' = NoAnswer
    /\ successCheck' = NoAnswer
    /\ formCheck' = NoAnswer
    /\ UNCHANGED <<orchestratorVars, brokersFile, lastDiagnosis, persisted, peer, screenshotsDir, faultVars,
                   catalogWrites, searchCheck, oracleReply, formVars>>

\* what can go wrong inside analyzeFailureScreenshot before the response is
\* parsed: readFileSync of the evidence, fetch, a non-OK status, a body
\* without choices
AnalyzerFaults ==
    { "ENOENT: no such file or directory, open 'screenshots/failure.png'",
      "fetch failed",
      "OpenAI API error: 500 Internal Server Error",
      "Cannot read properties of undefined (reading '0')" }

\* how one vision model call went: it faulted, or it returned `response`
Outcomes(faults, responses) ==
    {[fault |-> f, response |-> Absent] : f \in faults}
        \cup {[fault |-> Absent, response |-> r] : r \in responses}

\* the outcomes explored along whole sessions
AnalyzerOutcomes == Outcomes(AnalyzerFaults, Responses)

\* analyzeFailureScreenshot (lines 32-95): any fault inside the try block
\* gives the placeholder, else the parsed response
analyzeFailureScreenshot(o) ==
    IF o.fault # Absent THEN AnalysisFailed ELSE parseAnalysisResponse(o.response)

\* what analyzeFailureScreenshot returns, by outcome
Analyses == [o \in AnalyzerOutcomes |-> analyzeFailureScreenshot(o)]

\* updateBrokerWithAnalysis's return value (lines 346-360)
updateBrokerWithAnalysis(b, analysis) ==
    IF ShouldApply(analysis)
    THEN [b EXCEPT !.notes = AnnotatedNotes(b.notes, analysis)]
    ELSE b

\* variant of WithAnalysis in which the diagnosis replaces the verdict's text
WithAnalysis_Reclassifying(r, analysis) ==
    [r EXCEPT !.aiAnalysis = <<analysis>>, !.details = analysis.problem]

\* line 201: the diagnosis is attached to the result
WithAnalysis(r, analysis) == [r EXCEPT !.aiAnalysis = <<analysis>>]

\* lines 189-206: analyze the failure, fold a confident diagnosis into
\* brokers.json (updateBrokerWithAnalysis, saveUpdatedBroker: the file is
\* written when it can be read, holds an entry of that name and the write
\* goes through), attach the diagnosis
Analyze(analyses) ==
    /\ pc = "analyze"
    /\ calls' = Append(calls, "analyzer")
    /\ \E o \in DOMAIN analyses :
          LET analysis == analyses[o]
              updatedBroker == updateBrokerWithAnalysis(broker, analysis)
          IN  /\ oracleReply' = <<o>>
              /\ result' = WithAnalysis(result, analysis)
              /\ IF ShouldApply(analysis)
                    /\ FindIndex(brokersFile.entries, updatedBroker.name) > 0
                 THEN \/ /\ brokersFile' =
                               [brokersFile EXCEPT !.entries =
                                   SavedCatalog(brokersFile.entries, updatedBroker)]
                         /\ lastDiagnosis' = <<analysis.specialInstructions>>
                         /\ persisted' = persisted \cup {Persisted(broker.name, analysis)}
                         /\ UNCHANGED peer
                         /\ catalogWrites' = catalogWrites + 1
                      \/ UNCHANGED <<brokersFile, lastDiagnosis, persisted, peer, catalogWrites>>
                 ELSE UNCHANGED <<brokersFile, lastDiagnosis, persisted, peer, catalogWrites>>
    /\ pc' = "returned"
    /\ UNCHANGED <<orchestratorVars, screenshotsDir, faultVars, verifyVars,
                   searchCheck, formVars>>

analyzeFailure == Analyze(Analyses)

\* variant of WithError that loses the message
WithError_Dropped(r, message) == r

\* line 211: the caught error becomes the result's error
WithError(r, message) == [r EXCEPT !.error = message]

\* lines 209-212: the broker boundary: whatever the try block threw is
\* recorded on the result.  The phase helper that threw has been unwound,
\* so its locals are gone
catchBlock ==
    /\ pc = "catch"
    /\ result' = WithError(result, fault)
    /\ pc' = "errorScreenshot"
    /\ listingCheck' = <<>>
    /\ errorCheck' = NoAnswer
    /\ successCheck' = NoAnswer
    /\ formCheck' = NoAnswer
    /\ fieldCheck' = NoAnswer
    /\ readyCheck' = <<>>
    /\ UNCHANGED <<orchestratorVars, brokersFile, lastDiagnosis, persisted, peer, screenshotsDir, faultVars,
                   calls, catalogWrites, searchCheck, oracleReply, instruction>>

\* lines 213-226: the error snapshot
takeErrorScreenshot ==
    /\ pc = "errorScreenshot"
    /\ calls' = Append(calls, "screenshot")
    /\ \E captured \in BOOLEAN :
          result' = WithScreenshot(result, captured,
                        ScreenshotPath(FALSE, broker.name))
    /\ pc' = "returned"
    /\ UNCHANGED <<orchestratorVars, brokersFile, lastDiagnosis, persisted, peer, screenshotsDir, faultVars,
                   verifyVars, catalogWrites, searchCheck, oracleReply, formVars>>

(* ----------------------------- user profile ---------------------------- *)
\* s.charAt(k - 1)
CharAt(s, k) == SubSeq(s, k, k)

\* every character of s is one of chars
AllIn(s, chars) == \A k \in 1..Len(s) : Includes(chars, CharAt(s, k))

\* String.prototype.toUpperCase
RECURSIVE ToUpper(_)
ToUpper(s) ==
    IF s = "" THEN ""
    ELSE LET c == CharAt(s, 1)
             l == IndexOf(LowerChars, c)
         IN  (IF l > 0 THEN SubSeq(UpperChars, l, l) ELSE c)
             \o ToUpper(SubSeq(s, 2, Len(s)))

DigitChars == "0123456789"
AlnumChars == LowerChars \o UpperChars \o DigitChars

\* z.string().email(): a local part of [A-Z0-9_'+-.] that does not start
\* with a dot and ends in [A-Z0-9_+-], no two dots in a row, "@", one or
\* more dot-terminated labels [A-Z0-9][A-Z0-9-]*, a final label of two or
\* more letters (case-insensitive)
ZodEmail(s) ==
    LET a == IndexOf(s, "@")
        local == SubSeq(s, 1, a - 1)
        labels == Split(SubSeq(s, a + 1, Len(s)), ".")
        n == Len(labels)
    IN  /\ a > 1
        /\ CharAt(s, 1) # "."
        /\ ~Includes(s, "..")
        /\ AllIn(local, AlnumChars \o "_'+-.")
        /\ Includes(AlnumChars \o "_+-", CharAt(local, Len(local)))
        /\ n >= 2
        /\ \A j \in 1..(n - 1) :
              /\ labels[j] # ""
              /\ Includes(AlnumChars, CharAt(labels[j], 1))
              /\ AllIn(labels[j], AlnumChars \o "-")
        /\ Len(labels[n]) >= 2
        /\ AllIn(labels[n], LowerChars \o UpperChars)

\* the fields UserSchema declares as z.string() (additionalNotes is optional)
RequiredFields ==
    {"firstName", "lastName", "email", "address", "city", "state", "zip",
     "phone", "dateOfBirth"}

\* UserSchema.parse(p) does not throw: every declared field is a string and
\* email is an e-mail address; no other field is looked at
UserSchema(p) ==
    /\ \A f \in RequiredFields : p[f] # Absent
    /\ ZodEmail(p.email)

\* input.trim() ? true : "... is required" (cli.ts 15, 21, 36, 42)
RequiredPrompt(input) == Trim(input) # ""

\* /^[^\s@]+@[^\s@]+\.[^\s@]+$/.test(input) (cli.ts 28)
EmailPrompt(input) ==
    \E a, d \in 1..Len(input) :
        /\ CharAt(input, a) = "@"
        /\ CharAt(input, d) = "."
        /\ 1 < a /\ a + 1 < d /\ d < Len(input)
        /\ \A k \in 1..Len(input) :
              ~IsSpace(CharAt(input, k)) /\ (CharAt(input, k) = "@" => k = a)

\* /^[A-Z]{2}$/.test(input.toUpperCase()) (cli.ts 49-50)
StatePrompt(input) == Len(input) = 2 /\ AllIn(ToUpper(input), UpperChars)

\* /^\d{5}(-\d{4})?$/.test(input) (cli.ts 59)
ZipPrompt(input) ==
    \/ Len(input) = 5 /\ AllIn(input, DigitChars)
    \/ /\ Len(input) = 10
       /\ AllIn(SubSeq(input, 1, 5), DigitChars)
       /\ CharAt(input, 6) = "-"
       /\ AllIn(SubSeq(input, 7, 10), DigitChars)

\* input.replace(/[\s\-\(\)]/g, "") (cli.ts 69)
RECURSIVE StripPhone(_)
StripPhone(s) ==
    IF s = "" THEN ""
    ELSE LET c == CharAt(s, 1)
         IN  (IF IsSpace(c) \/ Includes("-()", c) THEN "" ELSE c)
             \o StripPhone(SubSeq(s, 2, Len(s)))

\* /^[\+]?[1-9][\d]{0,15}$/.test(stripped) (cli.ts 68-69)
PhonePrompt(input) ==
    LET t == StripPhone(input)
        d == IF t # "" /\ CharAt(t, 1) = "+" THEN SubSeq(t, 2, Len(t)) ELSE t
    IN  /\ Len(d) \in 1..16
        /\ AllIn(d, DigitChars)
        /\ CharAt(d, 1) # "0"

\* /^\d{4}-\d{2}-\d{2}$/.test(input) (cli.ts 77)
DateFormat(input) ==
    /\ Len(input) = 10
    /\ \A k \in 1..10 :
          IF k \in {5, 8} THEN CharAt(input, k) = "-" ELSE IsDigit(CharAt(input, k))

\* new Date(input).getTime() for an input of that format, in days the order
\* of which is the order of the dates: NaN (Invalid Date) when the month or
\* the day of the month is out of range
DateValue(input) ==
    LET y == DigitsValue(SubSeq(input, 1, 4))
        m == DigitsValue(SubSeq(input, 6, 7))
        d == DigitsValue(SubSeq(input, 9, 10))
    IN  IF m \in 1..12 /\ d \in 1..31 THEN Num((y * 12 + m) * 31 + d) ELSE NaN

\* new Date() when the profile is collected
Today == DateValue("2026-11-02")

\* a > b on Dates: false when either is Invalid Date
DateAfter(a, b) == a # NaN /\ b # NaN /\ a[1] > b[1]

\* the dateOfBirth validator (cli.ts 76-86)
DatePrompt(input) ==
    /\ DateFormat(input)
    /\ ~DateAfter(DateValue(input), Today)
    /\ ~DateAfter(DateValue("1900-01-01"), DateValue(input))

\* inquirer accepts the answers: every validate callback returned true
\* (cli.ts 10-94)
PromptAccepts(p) ==
    /\ RequiredPrompt(p.firstName) /\ RequiredPrompt(p.lastName)
    /\ EmailPrompt(p.email)
    /\ RequiredPrompt(p.address) /\ RequiredPrompt(p.city)
    /\ StatePrompt(p.state)
    /\ ZipPrompt(p.zip)
    /\ PhonePrompt(p.phone)
    /\ DatePrompt(p.dateOfBirth)

\* the profiles explored: what user.json may hold and what may be typed
Profiles ==
    [firstName : {"Ann", ""}, lastName : {"Lee"},
     email : {"ann@example.com", "ann@example.c", "ann.example.com"},
     address : {"1 Main St"}, city : {"Oakland"},
     state : {"CA", "California"},
     zip : {"94105", "9410"},
     phone : {"+1 (415) 555-0100", "call me", Absent},
     dateOfBirth : {"1980-05-17", "2999-01-01", "1899-12-31", "1980-13-45",
                    "May 1980"}]

\* UserSchema.parse on each explored profile
SchemaVerdicts == [p \in Profiles |-> UserSchema(p)]

\* the answers collectUserInfo can come back with: the state filter has
\* upper-cased the state (cli.ts 52)
Answers == {p \in Profiles : PromptAccepts(p) /\ p.state = ToUpper(p.state)}

\* what JSON.parse of user.json may give: <<>> when the file is missing or
\* is not JSON, else the object
SavedProfiles == {<<>>} \cup {<<p>> : p \in Profiles}

\* one UserSchema.parse: where the object came from, the object, the verdict
Parse(from, p) == [from |-> from, data |-> p, ok |-> SchemaVerdicts[p]]

\* part_001 31-48: loadUserData returns the saved profile when user.json
\* reads, parses and validates; the profile is reused when the user says so,
\* else collectUserInfo prompts for one and exits 1 when it does not validate
obtainUser ==
    /\ pc = "loadUserData"
    /\ \E saved \in SavedProfiles, useExisting \in BOOLEAN, answers \in Answers :
          LET loaded == IF saved = <<>> THEN <<>>
                        ELSE <<Parse("user.json", saved[1])>>
              reuse == loaded # <<>> /\ loaded[1].ok /\ useExisting
              collected == Parse("prompt", answers)
          IN  IF reuse
              THEN /\ profile' = loaded
                   /\ user' = TRUE
                   /\ Done("user")
                   /\ pc' = "selectSingleBroker"
                   /\ UNCHANGED exitCode
              ELSE /\ profile' = Append(loaded, collected)
                   /\ IF collected.ok
                      THEN /\ user' = TRUE
                           /\ Done("user")
                           /\ pc' = "selectSingleBroker"
                           /\ UNCHANGED exitCode
                      ELSE Exit(1) /\ UNCHANGED <<user, setup>>
    /\ UNCHANGED <<brokersFile, lastDiagnosis, persisted, peer, brokers, brokersToProcess, run,
                   engineReady, i, session, sessionFile, screenshotsDir, result,
                   faultVars, verifyVars, calls, started, ended, reported,
                   catalogWrites, searchCheck, oracleReply, formVars>>

(* ----------------------------- orchestrator ---------------------------- *)
attemptVars == <<result, faultCall, listingCheck, errorCheck, successCheck,
                 formCheck, calls, catalogWrites, searchCheck, oracleReply,
                 fieldCheck, readyCheck, instruction>>

\* the locals of removeFromBroker and of the loop body go out of scope
LocalsOver ==
    /\ result' = NewResult(NoBroker)
    /\ faultCall' = Absent
    /\ listingCheck' = <<>>
    /\ errorCheck' = NoAnswer
    /\ successCheck' = NoAnswer
    /\ formCheck' = NoAnswer
    /\ calls' = <<>>
    /\ catalogWrites' = 0
    /\ searchCheck' = NoAnswer
    /\ oracleReply' = NoAnswer
    /\ fieldCheck' = NoAnswer
    /\ readyCheck' = <<>>
    /\ instruction' = <<>>

\* the attempt is over and nothing is in flight
AttemptOver == fault' = Absent /\ LocalsOver

\* JSON.stringify(session) as removal-session.json holds it
Snapshot(s) == <<s>>

\* main lines 88-91: the result is appended and the session is written; a
\* write that throws is caught by the loop's catch block
pushResult ==
    /\ pc = "returned"
    /\ session' = [session EXCEPT !.results = Append(@, result)]
    /\ \/ /\ sessionFile' = Snapshot(session')
          /\ i' = i + 1
          /\ ended' = ended + 1
          /\ pc' = "loop"
          /\ AttemptOver
       \/ /\ fault' = WriteFault
          /\ pc' = "mainCatch"
          /\ LocalsOver
          /\ UNCHANGED <<sessionFile, i, ended>>
    /\ UNCHANGED <<exitCode, brokersFile, lastDiagnosis, persisted, peer, brokers, brokersToProcess, user, profile, run, setup,
                   engineReady, screenshotsDir, started, reported>>

\* the result main's catch block records (lines 94-99)
CaughtResult(b, message) == WithError(NewResult(b), message)

\* main lines 92-100: whatever removeFromBroker or the session write threw
\* is recorded as a failed result; the session file is not written
mainCatch ==
    /\ pc = "mainCatch"
    /\ session' = [session EXCEPT !.results =
                      Append(@, CaughtResult(brokersToProcess[i], fault))]
    /\ i' = i + 1
    /\ ended' = ended + 1
    /\ pc' = "loop"
    /\ AttemptOver
    /\ UNCHANGED <<exitCode, brokersFile, lastDiagnosis, persisted, peer, brokers, brokersToProcess, user, profile, run, setup,
                   engineReady, sessionFile, screenshotsDir, started, reported>>

\* main lines 83 and 103-108: the loop ends; engine.close() swallows its errors
closeEngine ==
    /\ LoopReady
    /\ i > Len(brokersToProcess)
    /\ pc' = "report"
    /\ UNCHANGED <<exitCode, brokersFile, lastDiagnosis, persisted, peer, brokers, brokersToProcess, user, profile, run, setup,
                   engineReady, i, session, sessionFile, screenshotsDir, faultVars,
                   started, ended, reported, attemptVars>>

\* variant of Finalized that leaves the session open
Finalized_Open(s, t) == s

\* main line 111: session.endTime = new Date()
Finalized(s, t) == [s EXCEPT !.endTime = <<t>>]

\* main lines 110-119: the end time is set and the tally is printed
finalReport ==
    /\ pc = "report"
    /\ \E t \in Now(session.startTime[1]) : session' = Finalized(session, t)
    /\ reported' = TRUE
    /\ pc' = "finalSave"
    /\ UNCHANGED <<exitCode, brokersFile, lastDiagnosis, persisted, peer, brokers, brokersToProcess, user, profile, run, setup,
                   engineReady, i, sessionFile, screenshotsDir, faultVars, started,
                   ended, attemptVars>>

\* main lines 121-123 and 155-158: the final write; when it throws, main's
\* rejection handler exits with code 1
finalSave ==
    /\ pc = "finalSave"
    /\ \/ sessionFile' = Snapshot(session) /\ Exit(0)
       \/ Exit(1) /\ UNCHANGED sessionFile
    /\ UNCHANGED <<brokersFile, lastDiagnosis, persisted, peer, brokers, brokersToProcess, user, profile, run, setup, engineReady, i,
                   session, screenshotsDir, faultVars, started, ended, reported,
                   attemptVars>>

\* every step of the program but the failure analysis
Steps ==
    \/ loadBrokers
    \/ obtainUser
    \/ selectSingleBroker
    \/ confirmRemoval
    \/ initialize
    \/ removeFromBrokerStart
    \/ navigate
    \/ checkIfNeedsSearch
    \/ performSearch
    \/ findListing
    \/ findListingFallback
    \/ applySpecialInstructions
    \/ fillAct
    \/ fillCheck
    \/ fillFix
    \/ handleCheckboxes
    \/ handleRadios
    \/ submitFill
    \/ submitCheck
    \/ submitFix
    \/ submitRecheck
    \/ submitClick
    \/ verifyError
    \/ verifySuccess
    \/ verifyForm
    \/ takeScreenshot
    \/ catchBlock
    \/ takeErrorScreenshot
    \/ pushResult
    \/ mainCatch
    \/ closeEngine
    \/ finalReport
    \/ finalSave

Next == Steps \/ analyzeFailure

Spec == Init /\ [][Next]_vars

(* ---------------- single-broker runs, any reply of the model ----------- *)
\* lines a reply of the vision model may or may not carry
ProblemLines == {"", "Problem: consent box unchecked"}
FixLines == {"", "Fix: Tick the consent box"}
ConfidenceLines ==
    {"", "Confidence: 8", "Confidence: 15", "Confidence: 0", "Confidence: -3",
     "Confidence: high", "Confidence:", "confidence: 6/10", "Confidence: 5"}

\* the lines of `lines` that are not empty
RECURSIVE NonEmpty(_)
NonEmpty(lines) ==
    IF lines = <<>> THEN <<>>
    ELSE (IF lines[1] = "" THEN <<>> ELSE <<lines[1]>>) \o NonEmpty(Tail(lines))

\* replies made of a free-text opening and any choice of labelled lines
AnyResponses ==
    {Join(NonEmpty(<<"The page shows a captcha.", p, f, c>>), "\n") :
        p \in ProblemLines, f \in FixLines, c \in ConfidenceLines}

AnyOutcomes == Outcomes(AnalyzerFaults, AnyResponses \cup {NullContent})

\* what analyzeFailureScreenshot returns, by outcome
AnyAnalyses == [o \in AnyOutcomes |-> analyzeFailureScreenshot(o)]

\* the failure analysis, the vision model replying anything
analyzeAnyReply == Analyze(AnyAnalyses)

\* brokers.json holding a single entry, or not validating
SingleFiles ==
    {[valid |-> TRUE, entries |-> <<BrokerPool[k]>>] : k \in 1..Len(BrokerPool)}
        \cup {[valid |-> FALSE, entries |-> <<>>]}

NextAnyReply == Steps \/ analyzeAnyReply

\* runs over a one-broker catalog in which the vision model may reply anything
SpecAnyReply == InitFrom(SingleFiles) /\ [][NextAnyReply]_vars

(* ------------- repeated runs over a one-broker catalog ----------------- *)
\* how many times the program is started, one run after the other
MaxRuns == 3

\* notes the catalog entry may carry when the first run starts: none, a
\* manual marker, no marker, the AI marker without an annotation, a manual
\* marker next to the AI marker without an annotation
StartNotes ==
    {"", "Click the opt-out link", "Phone verification required",
     "AI Analysis pending", "Click the opt-out link (AI Analysis failed)"}

NotedFiles ==
    {[valid |-> TRUE, entries |-> <<[name |-> "Acme Data", notes |-> n]>>] :
        n \in StartNotes}

\* answers of the vision model explored across runs: two confident
\* diagnoses with different fixes and an unconfident one
RunResponses ==
    { "Problem: consent box unchecked\nFix: Tick the consent box\nConfidence: 8",
      "Problem: captcha\nFix: Solve the captcha\nConfidence: 7",
      "The page shows a captcha.\nConfidence: 4/10" }

RunOutcomes == Outcomes({"fetch failed"}, RunResponses)

\* what analyzeFailureScreenshot returns, by outcome
RunAnalyses == [o \in RunOutcomes |-> analyzeFailureScreenshot(o)]

analyzeRun == Analyze(RunAnalyses)

\* the process has ended and the program is started again: brokers.json and
\* the screenshots directory are as the last run left them.  The program
\* never reads removal-session.json; the new run is explored with the old
\* file moved away.  A run that left brokers.json as it found it puts the
\* next run where this one began, so only runs that changed it are followed
restart ==
    /\ pc = "exit"
    /\ run < MaxRuns
    /\ brokersFile.valid
    /\ brokersFile.entries # brokers
    /\ run' = run + 1
    /\ pc' = "loadBrokers"
    /\ exitCode' = -1
    /\ brokers' = <<>>
    /\ brokersToProcess' = <<>>
    /\ user' = FALSE
    /\ setup' = <<>>
    /\ profile' = <<>>
    /\ engineReady' = FALSE
    /\ i' = 1
    /\ session' = NoSession
    /\ sessionFile' = <<>>
    /\ started' = <<>>
    /\ ended' = 0
    /\ reported' = FALSE
    /\ AttemptOver
    /\ persisted' = {}
    /\ UNCHANGED <<brokersFile, lastDiagnosis, peer, screenshotsDir>>

NextRuns == Steps \/ analyzeRun \/ restart

\* up to MaxRuns runs, one after the other, over a one-broker catalog
SpecRuns == InitFrom(NotedFiles) /\ [][NextRuns]_vars

(* ------------- one run while brokers.json changes on disk -------------- *)
\* the catalog of the two pool entries
PairFiles == {[valid |-> TRUE, entries |-> <<BrokerPool[1], BrokerPool[2]>>]}

\* the sequence without its k-th element
Without(seq, k) == SubSeq(seq, 1, k - 1) \o SubSeq(seq, k + 1, Len(seq))

\* somebody removes an entry from brokers.json while the run is going.  The
\* program reads the file at its start and in saveUpdatedBroker only, so the
\* change is explored where it is first seen: just before an analysis
catalogEdited ==
    /\ pc = "analyze"
    /\ brokersFile.valid
    /\ \E k \in 1..Len(brokersFile.entries) :
          brokersFile' = [brokersFile EXCEPT !.entries = Without(@, k)]
    /\ UNCHANGED <<pc, orchestratorVars, lastDiagnosis, persisted, peer, screenshotsDir,
                   faultVars, sessionFile, attemptVars>>

NextEdited == Next \/ catalogEdited

\* one run over the two-entry catalog, entries being removed on the way
SpecEdited == InitFrom(PairFiles) /\ [][NextEdited]_vars

(* --------------- two runs of the program on one brokers.json ----------- *)
\* The other run is followed where it touches brokers.json: its loadBrokers
\* and the write of its failure analysis.  The rest of it (its own session,
\* browser and profile) shares nothing with this run.

\* the confident diagnosis the other run's analyzer comes back with
PeerAnalysis ==
    parseAnalysisResponse("Problem: captcha\nFix: Solve the captcha\nConfidence: 7")

\* the other run starts: loadBrokers reads brokers.json as it is now
peerLoads ==
    /\ peer.pc = "absent"
    /\ brokersFile.valid
    /\ peer' = [peer EXCEPT !.pc = "loaded", !.brokers = brokersFile.entries]
    /\ UNCHANGED <<pc, orchestratorVars, brokersFile, lastDiagnosis, persisted,
                   screenshotsDir, faultVars, sessionFile, attemptVars>>

\* an attempt of the other run failed and was diagnosed: updateBrokerWithAnalysis
\* annotates the broker that run holds in memory, and saveUpdatedBroker puts
\* it into brokers.json as it is now
peerDiagnoses ==
    /\ peer.pc = "loaded"
    /\ \E k \in 1..Len(peer.brokers) :
          LET updatedBroker == updateBrokerWithAnalysis(peer.brokers[k], PeerAnalysis)
          IN  /\ FindIndex(brokersFile.entries, updatedBroker.name) > 0
              /\ brokersFile' =
                    [brokersFile EXCEPT !.entries =
                        SavedCatalog(brokersFile.entries, updatedBroker)]
              /\ peer' = [peer EXCEPT
                            !.pc = "done",
                            !.wrote = <<Persisted(updatedBroker.name, PeerAnalysis)>>]
    /\ UNCHANGED <<pc, orchestratorVars, lastDiagnosis, persisted, screenshotsDir,
                   faultVars, sessionFile, attemptVars>>

NextRace == Next \/ peerLoads \/ peerDiagnoses

\* this run and the other one, their steps interleaved, over the two-entry
\* catalog
SpecRace == InitFrom(PairFiles) /\ [][NextRace]_vars

(* ======================================================================= *)
(* Properties                                                              *)
(* ======================================================================= *)
\* vocabulary of the properties: the oracle calls of each phase
SearchCalls == {"act:search"}
ListingCalls == {"extract:listing", "extract:listingFallback"}
InstructionCalls == {"act:instructions"}
FillCalls == {"act:fill", "extract:fieldCheck", "act:fillFix"}
ConsentCalls == {"extract:checkboxes", "extract:radios"}
SubmitCalls == {"act:submitFill", "extract:formReady", "act:checkboxFix",
                "extract:formRecheck", "act:submit"}
VerifyCalls == {"extract:errorCheck", "extract:successCheck", "extract:formStill"}
ActCalls == {"act:search", "act:instructions", "act:fill", "act:fillFix",
             "act:submitFill", "act:checkboxFix", "act:submit"}
\* navigate, extractFacts and performAction calls of the phases Start..Verify
WorkflowCalls ==
    {"navigate", "extract:needsSearch"} \cup SearchCalls \cup ListingCalls
        \cup InstructionCalls \cup FillCalls \cup ConsentCalls \cup SubmitCalls
        \cup VerifyCalls

Issued(label) == \E k \in 1..Len(calls) : calls[k] = label
Count(label) == Cardinality({k \in 1..Len(calls) : calls[k] = label})
IssuedAnyOf(labels) == \E k \in 1..Len(calls) : calls[k] \in labels
LastCall == calls[Len(calls)]

\* removeFromBroker has returned its result to main
Returned == pc = "returned"

(* ---- C1 ---- *)
\* C1: when verifySubmission returns, an error probe that reported error
\* indicators gives Failure and neither later probe was consulted; otherwise
\* a success probe that reported success text gives Success and the
\* still-on-form probe was not consulted; otherwise the verdict is Failure.
\* Success iff the error probe was negative and the success probe positive.
C1_VerifyPriority ==
    pc = "screenshot" =>
       /\ errorCheck # NoAnswer
       /\ LET err == errorCheck[1].foundErrorIndicators
              asked == successCheck # NoAnswer
              succ == asked /\ successCheck[1].foundSuccessText
          IN  /\ err => (~result.success /\ ~asked /\ formCheck = NoAnswer)
              /\ ~err => asked
              /\ (~err /\ succ) => (result.success /\ formCheck = NoAnswer)
              /\ (~err /\ ~succ) => (~result.success /\ formCheck # NoAnswer)
              /\ result.success <=> (~err /\ succ)

\* a Success verdict, and a Failure verdict decided by the error probe
C1_Witness ==
    /\ pc = "screenshot"
    /\ errorCheck # NoAnswer /\ ~errorCheck[1].foundErrorIndicators
    /\ successCheck # NoAnswer /\ successCheck[1].foundSuccessText
    /\ result.success

(* ---- C2 ---- *)
\* C2: attempts are started in list order without gaps; once the engine is
\* initialised the process cannot end or get stuck before the final report,
\* and at the report every broker of the list has had its attempt started,
\* whatever faults the oracle, the analyzer or the file system raised.
C2_EveryBrokerAttempted ==
    /\ \A k \in 1..Len(started) : started[k] = k
    /\ Len(started) <= Len(brokersToProcess)
    /\ (engineReady /\ pc = "exit") => reported
    /\ reported => Len(started) = Len(brokersToProcess)
    /\ (engineReady /\ pc # "exit") => ENABLED Next

\* the report is reached after a run whose first broker faulted
C2_Witness ==
    /\ reported
    /\ Len(brokersToProcess) = 2
    /\ Len(started) = 2
    /\ session.results[1].error = TimeoutFault

(* ---- C3 ---- *)
\* C3 (as claimed): once k attempts have ended, whether they returned or
\* threw, removal-session.json holds exactly the results of brokers 1..k in
\* processing order.
C3_PersistedAfterEveryAttempt ==
    ended > 0 =>
       /\ sessionFile # <<>>
       /\ Len(sessionFile[1].results) = ended
       /\ \A k \in 1..ended : sessionFile[1].results[k].broker = brokersToProcess[k]

(* ---- C4 ---- *)
ProbeHit(ans) == ans.found /\ ans.clicked

\* C4: when both listing probes have answered without a found-and-clicked
\* listing, the attempt has returned success=false with the error "Could not
\* find user listing", after a search, and no instruction, fill, consent,
\* submit or verify call was issued.
C4_ListingNotFound ==
    (Len(listingCheck) = 2 /\ ~ProbeHit(listingCheck[1]) /\ ~ProbeHit(listingCheck[2]))
       => /\ Returned
          /\ ~result.success
          /\ result.error = "Could not find user listing"
          /\ Issued("act:search")
          /\ ~IssuedAnyOf(InstructionCalls \cup FillCalls \cup ConsentCalls
                            \cup SubmitCalls \cup VerifyCalls)

C4_Witness ==
    /\ Returned
    /\ Len(listingCheck) = 2
    /\ listingCheck[1].found /\ ~listingCheck[1].clicked
    /\ ~listingCheck[2].found
    /\ result.error = "Could not find user listing"

(* ---- C5 ---- *)
\* C5 (as claimed): an attempt that returns after a fault of any oracle call,
\* the evidence snapshot included, has success=false and carries the fault's
\* message as its error.
C5_AnyFaultFailsAttempt ==
    (Returned /\ (faultCall # Absent \/ result.screenshot = FailedToSave))
       => (~result.success /\ Truthy(result.error))

\* C5 (amended): a fault of a navigate, extractFacts or performAction call
\* sends control to the broker boundary with that call as the last one
\* issued; the attempt returns with success=false and error equal to the
\* fault's message, the only call issued after the faulting one is the
\* evidence snapshot, and main's own catch block never receives the fault.
\* A fault of the snapshot itself is swallowed and leaves success, error and
\* details as verification set them.
C5_FaultEndsAttempt ==
    /\ pc \in {"catch", "errorScreenshot"} =>
          /\ faultCall \in WorkflowCalls
          /\ LastCall = faultCall
          /\ fault = TimeoutFault
          /\ ~result.success
    /\ pc = "errorScreenshot" => result.error = fault
    /\ (Returned /\ faultCall # Absent) =>
          /\ ~result.success
          /\ result.error = fault
          /\ faultCall \in WorkflowCalls
          /\ Len(calls) >= 2
          /\ LastCall = "screenshot"
          /\ calls[Len(calls) - 1] = faultCall
          /\ Count(faultCall) = 1
    /\ faultCall # Absent => pc \in {"catch", "errorScreenshot", "returned"}
    /\ pc = "mainCatch" => fault \in {MkdirFault, WriteFault}
    /\ (Returned /\ faultCall = Absent /\ result.screenshot = FailedToSave) =>
          /\ result.error = Absent
          /\ Truthy(result.details)
          /\ Issued("extract:errorCheck")

\* a probe of the verify phase faulted and the attempt returned
C5_Witness ==
    /\ Returned
    /\ faultCall = "extract:successCheck"
    /\ result.error = TimeoutFault
    /\ ~result.success

(* ---- C6 ---- *)
\* C6: navigation is the first call of an attempt and is issued once; when it
\* throws, no extractFacts or performAction call is issued, the attempt
\* returns success=false with the navigation error, and main is then able to
\* start the next broker.
C6_NavigateOnce ==
    /\ Count("navigate") <= 1
    /\ pc = "goto" => calls = <<>>
    /\ calls # <<>> => calls[1] = "navigate"
    /\ faultCall = "navigate" =>
          \A k \in 1..Len(calls) : calls[k] \in {"navigate", "screenshot"}
    /\ (Returned /\ faultCall = "navigate") =>
          /\ calls = <<"navigate", "screenshot">>
          /\ ~result.success
          /\ result.error = fault
    /\ Returned => ENABLED pushResult
    /\ (pc = "loop" /\ i <= Len(brokersToProcess)) =>
          /\ i = ended + 1
          /\ ENABLED removeFromBrokerStart

\* the first broker's navigation threw and a second broker is waiting
C6_Witness ==
    /\ Returned
    /\ faultCall = "navigate"
    /\ calls = <<"navigate", "screenshot">>
    /\ result.error = TimeoutFault
    /\ i = 1
    /\ Len(brokersToProcess) = 2

AfterAct(label) ==
    CASE label = "act:search" -> {"extract:listing"}
      [] label = "act:instructions" -> {"act:fill"}
      [] label = "act:fill" -> {"extract:fieldCheck"}
      [] label = "act:fillFix" -> {"extract:checkboxes"}
      [] label = "act:submitFill" -> {"extract:formReady"}
      [] label = "act:checkboxFix" -> {"extract:formRecheck"}
      [] label = "act:submit" -> {"extract:errorCheck"}

\* the step that is pending when a performAction call has just returned
PcAfterAct(label) ==
    CASE label = "act:search" -> "listing"
      [] label = "act:instructions" -> "fillAct"
      [] label = "act:fill" -> "fillCheck"
      [] label = "act:fillFix" -> "checkboxes"
      [] label = "act:submitFill" -> "submitCheck"
      [] label = "act:checkboxFix" -> "submitRecheck"
      [] label = "act:submit" -> "verifyError"

C8_EvidenceOnEveryPath ==
    Returned => (Issued("screenshot") /\ Truthy(result.screenshot))

(* ---- C9 ---- *)
\* a step that issues the evidence snapshot
SnapshotStep == Len(calls') = Len(calls) + 1 /\ calls'[Len(calls')] = "screenshot"

\* C9: the step that takes the evidence snapshot changes nothing of the
\* result but its evidence reference, which becomes the saved path when the
\* capture succeeds and "failed_to_save" when it throws: success, error and
\* details are the same in both cases.
C9_SnapshotFrame ==
    [][SnapshotStep =>
          \E ref \in {FailedToSave, ScreenshotPath(result.success, result.broker.name)} :
              result' = [result EXCEPT !.screenshot = ref]]_vars

\* a verified Success whose snapshot failed is still a Success
C9_Witness ==
    /\ Returned
    /\ result.screenshot = FailedToSave
    /\ result.success
    /\ Truthy(result.details)
    /\ result.error = Absent

(* ---- C10 ---- *)
\* C10: while a failed attempt's evidence reference is "failed_to_save" the
\* analyzer has not been and is not about to be invoked, brokers.json has
\* not been written during the attempt, no analysis is attached and success
\* is false.
C10_NoAnalysisWithoutEvidence ==
    (result.screenshot = FailedToSave /\ ~result.success) =>
       /\ Returned
       /\ ~Issued("analyzer")
       /\ catalogWrites = 0
       /\ result.aiAnalysis = <<>>

\* a verified Failure whose snapshot threw
C10_Witness ==
    /\ Returned
    /\ result.screenshot = FailedToSave
    /\ ~result.success
    /\ faultCall = Absent
    /\ Truthy(result.details)
    /\ LastCall = "screenshot"

(* ---- C11 ---- *)
\* C11 (as claimed): every attempt that returns as a Failure with a saved
\* evidence snapshot has invoked the analyzer, whether the Failure is a
\* verdict of the verify phase or comes from a fault of some step.
C11_AnalyzerOnEveryFailure ==
    (Returned /\ ~result.success /\ ScreenshotSaved(result)) => Issued("analyzer")

(* ---- C12 ---- *)
\* a step that invokes the analyzer
AnalyzerStep == Len(calls') = Len(calls) + 1 /\ calls'[Len(calls')] = "analyzer"

\* C12: the step that invokes the analyzer and applies its diagnosis leaves
\* the result's success flag, error, details, broker and evidence reference
\* as they were; it only attaches the diagnosis.
C12_AnalysisFrame ==
    [][AnalyzerStep =>
          /\ result'.success = result.success
          /\ result'.error = result.error
          /\ result'.details = result.details
          /\ result'.aiAnalysis # <<>>
          /\ result' = [result EXCEPT !.aiAnalysis = result'.aiAnalysis]]_vars

\* a confident diagnosis was attached and applied to a verified Failure
C12_Witness ==
    /\ Returned
    /\ Issued("analyzer")
    /\ ~result.success
    /\ Truthy(result.details)
    /\ result.aiAnalysis # <<>>
    /\ result.aiAnalysis[1].confidence = Num(8)
    /\ catalogWrites = 1

(* ---- C13 ---- *)
\* the analyzer call of this attempt hit an internal fault
AnalyzerFaulted ==
    /\ oracleReply # NoAnswer
    /\ oracleReply[1].fault # Absent \/ oracleReply[1].response = NullContent

\* C13: once the analyzer has been invoked the attempt has returned without
\* any exception reaching the workflow and a diagnosis is attached; when the
\* analyzer hit an internal fault (evidence unreadable, request failed,
\* non-OK status, malformed body, unparsable content) the diagnosis has
\* confidence 0, the fix "Manual review required" and no instructions, and
\* brokers.json was not written.
C13_AnalyzerNeverRaises ==
    oracleReply # NoAnswer =>
       /\ Returned
       /\ fault = Absent /\ faultCall = Absent
       /\ result.aiAnalysis # <<>>
       /\ AnalyzerFaulted =>
             /\ result.aiAnalysis[1].confidence = Num(0)
             /\ result.aiAnalysis[1].suggestedFix = "Manual review required"
             /\ result.aiAnalysis[1].specialInstructions = ""
             /\ catalogWrites = 0
             /\ brokersFile.entries = brokers

\* the request to the vision model failed
C13_Witness ==
    /\ Returned
    /\ oracleReply # NoAnswer
    /\ oracleReply[1].fault = "fetch failed"
    /\ result.aiAnalysis[1].problem = "Analysis failed"

(* ---- C14 ---- *)
\* C14 (as claimed): the confidence of every attached diagnosis is a number
\* between 0 and 10.
C14_ConfidenceInRange ==
    result.aiAnalysis # <<>> =>
       /\ result.aiAnalysis[1].confidence # NaN
       /\ result.aiAnalysis[1].confidence[1] \in 0..10

(* ---- C15 ---- *)
\* C15 (as claimed): the notes of the returned broker and of the persisted
\* catalog entry differ from the input's notes iff the confidence is >= 6.
C15_AppliedIffConfident ==
    (Returned /\ result.aiAnalysis # <<>> /\ Len(brokersFile.entries) = 1) =>
       LET a == result.aiAnalysis[1]
           returned == updateBrokerWithAnalysis(result.broker, a)
       IN  NumGE(a.confidence, 6) <=>
              /\ returned.notes # result.broker.notes
              /\ brokersFile.entries[1].notes # result.broker.notes

\* C15 (amended): the broker applyDiagnosis returns has changed notes iff the
\* confidence is >= 6 (NaN is not); brokers.json is written at most once, and
\* only for a confidence >= 6, the entry of that name then being the returned
\* broker; a save that fails is swallowed and leaves the catalog as loaded.
\* Below 6, the placeholder included, the returned broker is the input and
\* the catalog is not written.
C15_AppliedOnlyIfConfident ==
    (Returned /\ result.aiAnalysis # <<>> /\ Len(brokersFile.entries) = 1) =>
       LET a == result.aiAnalysis[1]
           confident == a.confidence # NaN /\ a.confidence[1] >= 6
           returned == updateBrokerWithAnalysis(result.broker, a)
       IN  /\ (returned.notes # result.broker.notes) <=> confident
           /\ ~confident => (returned = result.broker /\ catalogWrites = 0)
           /\ catalogWrites \in {0, 1}
           /\ catalogWrites = 0 => brokersFile.entries = brokers
           /\ catalogWrites = 1 =>
                 /\ confident
                 /\ brokersFile.entries = <<returned>>
                 /\ returned.notes =
                       result.broker.notes \o "\n\nAI Analysis ("
                          \o ToString(a.confidence[1]) \o "/10): "
                          \o a.specialInstructions

\* a diagnosis of confidence exactly 6 was saved
C15_Witness ==
    /\ Returned
    /\ result.aiAnalysis # <<>>
    /\ result.aiAnalysis[1].confidence = Num(6)
    /\ catalogWrites = 1
    /\ brokersFile.entries[1].notes # result.broker.notes

(* ---- C16 ---- *)
\* the reply that carries none of the labelled lines
Unlabelled == "The page shows a captcha."

\* the model replied and its reply went through the parser's try block
Parsed ==
    /\ oracleReply # NoAnswer
    /\ oracleReply[1].fault = Absent
    /\ oracleReply[1].response # NullContent

\* C16 (as claimed): a reply without any labelled line parses to the fix
\* "Manual review required" and confidence 0.
C16_NothingParsedGivesZero ==
    (Parsed /\ oracleReply[1].response = Unlabelled) =>
       /\ result.aiAnalysis[1].suggestedFix = "Manual review required"
       /\ result.aiAnalysis[1].confidence = Num(0)

\* what JavaScript computes for the Confidence lines explored:
\* Math.max(1, Math.min(10, parseInt(value || '5')))
ExpectedConfidence(line) ==
    CASE line = "Confidence: 8" -> <<8>>
      [] line = "Confidence: 15" -> <<10>>
      [] line = "Confidence: 0" -> <<1>>
      [] line = "Confidence: -3" -> <<1>>
      [] line = "Confidence: high" -> <<>>
      [] line = "Confidence:" -> <<5>>
      [] line = "confidence: 6/10" -> <<6>>
      [] line = "Confidence: 5" -> <<5>>
      [] OTHER -> <<5>>

\* C16 (amended): a reply without any labelled line parses to the fix
\* "Manual review required", the reply's opening as the problem and
\* confidence 5; without a Confidence line the confidence is 5; a Confidence
\* line with an integer gives that integer clamped into [1,10], with an empty
\* value 5, and with non-numeric text NaN.
C16_ParseDefaults ==
    Parsed =>
       LET a == result.aiAnalysis[1]
           response == oracleReply[1].response
           lines == Split(response, "\n")
           last == lines[Len(lines)]
       IN  /\ response = Unlabelled =>
                 /\ a.suggestedFix = "Manual review required"
                 /\ a.problem = Unlabelled \o "..."
                 /\ a.nextSteps = <<>>
                 /\ a.confidence = <<5>>
           /\ a.confidence = ExpectedConfidence(last)
           /\ a.confidence = <<>> \/ a.confidence[1] \in 1..10
           /\ a.specialInstructions = a.suggestedFix

\* an unlabelled reply, parsed with the default confidence
C16_Witness ==
    /\ Returned
    /\ Parsed
    /\ oracleReply[1].response = Unlabelled
    /\ result.aiAnalysis[1].confidence = <<5>>

(* ---- C17 ---- *)
\* C17: whenever the success probe reports success text T, and whenever a
\* result has success=true, the result is success=true with details
\* "Success confirmed: " followed by T and it has no error; this includes the
\* attempts on a broker that needs no search.
C17_SuccessDetails ==
    /\ (pc = "screenshot" /\ successCheck # NoAnswer
           /\ successCheck[1].foundSuccessText) =>
          /\ result.success
          /\ result.details = "Success confirmed: " \o successCheck[1].successText
          /\ result.error = Absent
    /\ (pc = "screenshot" /\ result.success) =>
          /\ successCheck # NoAnswer
          /\ successCheck[1].foundSuccessText
    /\ result.success =>
          /\ result.error = Absent
          /\ faultCall = Absent
          /\ result.details =
                "Success confirmed: Thank you, your request has been submitted"

\* a Success on a broker that needed no search
C17_Witness ==
    /\ Returned
    /\ result.success
    /\ ~Issued("act:search")
    /\ result.broker.name = "Acme Data"
    /\ result.details = "Success confirmed: Thank you, your request has been submitted"
    /\ result.screenshot = "screenshots/success-Acme_Data.png"

(* ---- C18 ---- *)
\* C18: when the error probe and the success probe are both negative the
\* third probe has been consulted and the verdict is Failure without error
\* string: with details "Still on form page - submission failed. Page type: "
\* and the page type when the probe reports any of still-on-form, submit
\* button or form fields, and with the no-clear-success-indicators message
\* otherwise.
C18_AmbiguousIsFailure ==
    (pc = "screenshot" /\ errorCheck # NoAnswer /\ successCheck # NoAnswer
        /\ ~errorCheck[1].foundErrorIndicators
        /\ ~successCheck[1].foundSuccessText) =>
       /\ formCheck # NoAnswer
       /\ ~result.success
       /\ result.error = Absent
       /\ result.details =
             IF formCheck[1].stillOnForm \/ formCheck[1].hasSubmitButton
                   \/ formCheck[1].hasFormFields
             THEN "Still on form page - submission failed. Page type: "
                     \o formCheck[1].pageType
             ELSE "Unable to verify success - no clear success indicators found"

\* only the submit button is still visible
C18_Witness ==
    /\ pc = "screenshot"
    /\ formCheck # NoAnswer
    /\ formCheck[1].hasSubmitButton /\ ~formCheck[1].stillOnForm
    /\ result.details =
          "Still on form page - submission failed. Page type: opt-out form"

(* ---- C19 ---- *)
\* C19: the structural probe is the second call of an attempt and is issued
\* once; when it has answered, the search is the next step iff it reported
\* needsSearchFirst or the broker's name is on the allow-list, and otherwise
\* the instruction step is next; a search action comes only directly after
\* the probe, and listing probes only after a search action.
C19_SearchDecision ==
    /\ Count("extract:needsSearch") <= 1
    /\ (Len(calls) >= 2 /\ faultCall # "navigate") => calls[2] = "extract:needsSearch"
    /\ searchCheck # NoAnswer =>
          /\ LastCall = "extract:needsSearch"
          /\ pc \in {"performSearch", "instructions"}
          /\ pc = "performSearch" <=>
                (searchCheck[1].needsSearchFirst
                    \/ result.broker.name \in searchFirstBrokers)
    /\ Issued("act:search") => (Count("act:search") = 1 /\ calls[3] = "act:search")
    /\ IssuedAnyOf(ListingCalls) => Issued("act:search")
    /\ (Len(calls) >= 3 /\ calls[3] # "act:search") =>
          ~IssuedAnyOf(SearchCalls \cup ListingCalls)

\* the allow-list sends a broker to the search although the probe said no
C19_Witness ==
    /\ pc = "performSearch"
    /\ searchCheck = <<[needsSearchFirst |-> FALSE]>>
    /\ result.broker.name = "US Search"

(* ---- C20 ---- *)
\* the setup steps in the order main takes them
SetupOrder == <<"catalog", "user", "confirmed", "engine">>

\* C20: the completed setup steps are always a prefix of catalog, user,
\* confirmation, engine; an attempt has started, an oracle call was issued,
\* a result was recorded or the session file was written only after all
\* four; the process exits with code 1 when the catalog does not load or
\* the engine does not initialise (and when the profile does not validate),
\* and with code 0 when the confirmation is declined.
C20_SetupBeforeWork ==
    /\ \E k \in 0..Len(SetupOrder) : setup = SubSeq(SetupOrder, 1, k)
    /\ (started # <<>> \/ calls # <<>> \/ session.results # <<>>
           \/ sessionFile # <<>> \/ result.broker # NoBroker) => setup = SetupOrder
    /\ engineReady <=> setup = SetupOrder
    /\ setup # <<>> => (brokersFile.valid /\ brokers # <<>>)
    /\ Len(setup) >= 2 => user
    /\ pc # "exit" => exitCode = -1
    /\ (pc = "exit" /\ setup = <<>>) => exitCode = 1
    /\ (pc = "exit" /\ setup = <<"catalog">>) => exitCode = 1
    /\ (pc = "exit" /\ setup = <<"catalog", "user">>) => exitCode = 0
    /\ (pc = "exit" /\ setup = <<"catalog", "user", "confirmed">>) => exitCode = 1

\* the engine failed to initialise after the user confirmed
C20_Witness ==
    /\ pc = "exit"
    /\ setup = <<"catalog", "user", "confirmed">>
    /\ exitCode = 1
    /\ started = <<>>
    /\ sessionFile = <<>>

(* ------------------------------------------------------------------------
   C21  Brokers are processed strictly one after another: the attempts
   begin in catalog order, attempt k + 1 begins only after attempt k has
   ended and its result is in the session, and every oracle call issued
   and every result under construction belongs to the one broker the loop
   is at, so no two oracle calls are ever in flight at once.
   ------------------------------------------------------------------------ *)
C21_OneAttemptAtATime ==
    /\ Len(started) \in {ended, ended + 1}
    /\ \A k \in 1..Len(started) : started[k] = k
    /\ Len(session.results) >= ended
    /\ pc = "loop" => Len(started) = ended /\ i = ended + 1
    /\ Len(started) = ended + 1 => i = Len(started)
    /\ (calls # <<>> \/ result.broker # NoBroker) =>
          /\ Len(started) = ended + 1
          /\ result.broker = brokersToProcess[i]

\* the second broker's attempt is issuing calls, the first one's result is in
C21_Witness ==
    /\ Len(started) = 2
    /\ ended = 1
    /\ Len(session.results) >= 1
    /\ Len(calls) >= 2

(* ------------------------------------------------------------------------
   C22  Every session snapshot persisted while brokers are still being
   processed has no end time; when the run completes, the session is
   persisted once more, with an end time that is not earlier than the
   start time and with the results of all processed brokers in processing
   order.
   ------------------------------------------------------------------------ *)
\* rs holds, in order, a result for each broker of bs (and after a session
\* write that threw, the catch block's second result for the same broker)
RECURSIVE InOrder(_, _)
InOrder(rs, bs) ==
    IF bs = <<>> THEN rs = <<>>
    ELSE /\ rs # <<>>
         /\ rs[1].broker = bs[1]
         /\ \/ InOrder(Tail(rs), Tail(bs))
            \/ /\ Len(rs) >= 2
               /\ rs[2] = CaughtResult(bs[1], WriteFault)
               /\ InOrder(Tail(Tail(rs)), Tail(bs))

\* the run has completed: the report was printed and the final write went
\* through
Completed == pc = "exit" /\ exitCode = 0 /\ reported

C22_SessionFinalisedAtEnd ==
    /\ (sessionFile # <<>> /\ ~Completed) => sessionFile[1].endTime = <<>>
    /\ Completed =>
          /\ sessionFile = Snapshot(session)
          /\ sessionFile[1].endTime # <<>>
          /\ sessionFile[1].endTime[1] >= sessionFile[1].startTime[1]
          /\ InOrder(sessionFile[1].results, brokersToProcess)

\* a completed run of two brokers, after snapshots were written on the way
C22_Witness ==
    /\ Completed
    /\ Len(brokersToProcess) = 2
    /\ sessionFile[1].endTime[1] > sessionFile[1].startTime[1]

(* ------------------------------------------------------------------------
   C23  Schema validation, applied when the saved profile is loaded and
   when collected answers are parsed, accepts a profile if and only if
   every required field is non-empty and e-mail, date of birth, zip, phone
   and state each match their grammar; a date of birth that is in the
   future or before 1900-01-01, or an empty required field, is rejected.
   ------------------------------------------------------------------------ *)
\* the profile the claim calls valid
ProfileValid(p) ==
    /\ \A f \in RequiredFields : p[f] # Absent /\ Trim(p[f]) # ""
    /\ ZodEmail(p.email)
    /\ StatePrompt(p.state)
    /\ ZipPrompt(p.zip)
    /\ PhonePrompt(p.phone)
    /\ DateFormat(p.dateOfBirth)
    /\ DateValue(p.dateOfBirth) # NaN
    /\ ~DateAfter(DateValue(p.dateOfBirth), Today)
    /\ ~DateAfter(DateValue("1900-01-01"), DateValue(p.dateOfBirth))

C23_SchemaEnforcesGrammar ==
    \A k \in 1..Len(profile) : profile[k].ok <=> ProfileValid(profile[k].data)

(* ------------------------------------------------------------------------
   C24  ListingPhase issues the exact-match probe once; it issues the
   relaxed probe, exactly once and directly after, only if the first probe
   did not report a listing both found and clicked; the phase succeeds
   (the workflow goes on to the instructions) if and only if the probe
   that answered last reports both; it never issues more than two probes.
   ------------------------------------------------------------------------ *)
C24_ListingProbes ==
    /\ Count("extract:listing") <= 1
    /\ Count("extract:listingFallback") <= 1
    /\ \A k \in 1..Len(calls) :
          calls[k] = "extract:listingFallback" =>
             k > 1 /\ calls[k - 1] = "extract:listing"
    /\ Len(listingCheck) <= 2
    /\ Len(listingCheck) = 1 =>
          /\ LastCall \in ListingCalls
          /\ ProbeHit(listingCheck[1]) => ~Issued("extract:listingFallback")
          /\ ProbeHit(listingCheck[1]) <=> pc = "instructions"
          /\ ~ProbeHit(listingCheck[1]) =>
                pc = "listingFallback" \/ faultCall = "extract:listingFallback"
    /\ Len(listingCheck) = 2 =>
          /\ ~ProbeHit(listingCheck[1])
          /\ ProbeHit(listingCheck[2]) <=> pc = "instructions"
          /\ ~ProbeHit(listingCheck[2]) => Returned

\* the exact-match probe found a listing it could not click, the relaxed
\* probe found and clicked one
C24_Witness ==
    /\ Len(listingCheck) = 2
    /\ listingCheck[1].found /\ ~listingCheck[1].clicked
    /\ ProbeHit(listingCheck[2])
    /\ pc = "instructions"

(* ------------------------------------------------------------------------
   C25  SearchPhase issues exactly one performAction call and then always
   proceeds to ListingPhase, without probing whether the search was
   executed: when the action does not fault, the exact-match listing probe
   is the next oracle call, and the listing probe is never issued without
   the search action before it.
   ------------------------------------------------------------------------ *)
C25_SearchThenListing ==
    /\ Count("act:search") <= 1
    /\ \A k \in 1..Len(calls) :
          calls[k] = "act:search" =>
             /\ \A j \in (k + 1)..Len(calls) : calls[j] \notin SearchCalls
             /\ IF faultCall = "act:search"
                THEN \A j \in (k + 1)..Len(calls) : calls[j] \notin WorkflowCalls
                ELSE IF k < Len(calls) THEN calls[k + 1] = "extract:listing"
                ELSE pc = "listing"
    /\ \A k \in 1..Len(calls) :
          calls[k] = "extract:listing" => (k > 1 /\ calls[k - 1] = "act:search")
    /\ pc = "performSearch" => ~Issued("act:search")

\* the search action returned and the listing probe was the next call
C25_Witness ==
    /\ Issued("act:search")
    /\ LastCall = "extract:listing"
    /\ faultCall = Absent
    /\ Len(listingCheck) = 1

(* ------------------------------------------------------------------------
   C26  FillPhase issues one fill action and one filled-fields probe; it
   issues exactly one corrective fill action if and only if the probe
   reports that not all fields are filled; it never probes again or loops;
   in both cases it goes on to ConsentPhase, the checkbox probe and then
   the radio-button probe.
   ------------------------------------------------------------------------ *)
\* every call of that label directly follows a call of one of `before`
Follows(label, before) ==
    \A k \in 1..Len(calls) :
        calls[k] = label => (k > 1 /\ calls[k - 1] \in before)

C26_FillOnceFixOnce ==
    /\ \A label \in FillCalls \cup ConsentCalls : Count(label) <= 1
    /\ Follows("extract:fieldCheck", {"act:fill"})
    /\ Follows("act:fillFix", {"extract:fieldCheck"})
    /\ Follows("extract:checkboxes", {"extract:fieldCheck", "act:fillFix"})
    /\ Follows("extract:radios", {"extract:checkboxes"})
    /\ fieldCheck # NoAnswer =>
          /\ ~fieldCheck[1].allFieldsFilled <=>
                (pc = "fillFix" \/ Issued("act:fillFix"))
          /\ faultCall = Absent => pc \in {"fillFix", "checkboxes", "radios"}
          /\ Issued("extract:checkboxes") =>
                (fieldCheck[1].allFieldsFilled <=> ~Issued("act:fillFix"))

\* the probe reported empty fields, the corrective fill ran once and the
\* checkbox probe followed it
C26_Witness ==
    /\ fieldCheck = <<[allFieldsFilled |-> FALSE]>>
    /\ Count("act:fillFix") = 1
    /\ LastCall = "extract:checkboxes"
    /\ pc = "radios"

(* ------------------------------------------------------------------------
   C27  SubmitPhase issues the submit click if and only if the readiness
   probe reports ready, or it reports not ready with at least one unchecked
   box and the single re-check after one corrective action reports ready;
   otherwise no submit click is issued; in every case VerifyPhase runs
   next.
   ------------------------------------------------------------------------ *)
\* what the readiness probes' answers say about the submit click
ReadyToSubmit(answers) ==
    \/ answers[1].formReady
    \/ /\ answers[1].uncheckedCheckboxes > 0
       /\ Len(answers) = 2
       /\ answers[2].formReady

C27_SubmitIffReady ==
    /\ \A label \in SubmitCalls : Count(label) <= 1
    /\ Follows("act:checkboxFix", {"extract:formReady"})
    /\ Follows("extract:formRecheck", {"act:checkboxFix"})
    /\ Follows("act:submit", {"extract:formReady", "extract:formRecheck"})
    /\ Follows("extract:errorCheck",
               {"extract:formReady", "extract:formRecheck", "act:submit"})
    /\ pc = "verifyError" => readyCheck # <<>>
    /\ (readyCheck # <<>> /\ faultCall = Absent) =>
          /\ pc \in {"submitFix", "submitRecheck", "submitClick", "verifyError"}
          /\ Len(readyCheck) = 2 =>
                (~readyCheck[1].formReady /\ readyCheck[1].uncheckedCheckboxes > 0)
          /\ (pc = "submitClick" \/ Issued("act:submit")) <=>
                ReadyToSubmit(readyCheck)
          /\ pc = "verifyError" =>
                (Issued("act:submit") <=> ReadyToSubmit(readyCheck))
          /\ (pc = "submitFix" \/ Issued("act:checkboxFix")) <=>
                (~readyCheck[1].formReady /\ readyCheck[1].uncheckedCheckboxes > 0)

\* not ready with an unchecked box, ready at the re-check: the click was
\* issued and the verify phase is next
C27_Witness ==
    /\ pc = "verifyError"
    /\ Len(readyCheck) = 2
    /\ readyCheck[2].formReady
    /\ LastCall = "act:submit"

(* ------------------------------------------------------------------------
   C28  InstructionPhase issues exactly one performAction call, before the
   fill action, if and only if the broker's notes contain an instruction
   marker and a non-empty instruction text can be extracted from them:
   notes with an AI annotation yield an annotation's instruction, notes
   with only a manual marker yield the whole notes; notes with the AI
   marker but no well-formed annotation, and notes without any marker,
   yield no instruction action.
   ------------------------------------------------------------------------ *)
\* the notes carry one of the three markers
Marked(n) ==
    \/ Includes(n, "AI Analysis")
    \/ Includes(n, "Enter your email")
    \/ Includes(n, "Click the")

\* the instruction texts of the well-formed annotations of the notes
AnnotationTexts(n) ==
    {SubSeq(n, AIGroupStart(n, k), LineEnd(n, AIGroupStart(n, k))) :
        k \in {j \in 1..Len(n) : AIGroupStart(n, j) > 0}}

\* the instruction phase is just over: the fill action is next or was the
\* last call
InstructionPhaseOver == pc \in {"fillAct", "fillCheck"}

C28_InstructionIffExtractable ==
    /\ Count("act:instructions") <= 1
    /\ Issued("act:instructions") <=> instruction # <<>>
    /\ Follows("act:fill",
               {"navigate", "extract:needsSearch", "act:instructions"}
                   \cup ListingCalls)
    /\ \A k \in 1..Len(calls) :
          (calls[k] = "act:instructions" /\ k < Len(calls)) =>
              calls[k + 1] \in {"act:fill", "screenshot"}
    /\ InstructionPhaseOver =>
          LET n == result.broker.notes
          IN  IF ~Marked(n) THEN instruction = <<>>
              ELSE IF ~Includes(n, "AI Analysis") THEN instruction = <<n>>
              ELSE IF AnnotationTexts(n) = {} THEN instruction = <<>>
              ELSE instruction # <<>> /\ instruction[1] \in AnnotationTexts(n)

\* a second run replays the instruction of the annotation the first run wrote
C28_Witness ==
    /\ InstructionPhaseOver
    /\ run = 2
    /\ LastCall = "act:instructions"
    /\ instruction = <<"Tick the consent box">>

(* ------------------------------------------------------------------------
   C29  The feedback round trip: once a diagnosis with confidence 6 or more
   was applied to a broker and persisted, the next run, which reloads the
   catalog, issues in its InstructionPhase the performAction call whose
   text is that diagnosis's special-instructions string; this also holds
   when the notes already carry annotations of earlier diagnoses: the most
   recent one is replayed.
   ------------------------------------------------------------------------ *)
C29_LatestDiagnosisReplayed ==
    (InstructionPhaseOver /\ lastDiagnosis # <<>>) => instruction = lastDiagnosis

(* ------------------------------------------------------------------------
   C30  Applying a diagnosis of confidence 6 or more is append-only and
   local: the broker's new notes have the previous notes as a prefix, the
   catalog persisted by the write differs from the catalog before it only
   in the entry whose name equals the broker's name, the number and order
   of the entries are unchanged, and if no entry has that name the file is
   not written.
   ------------------------------------------------------------------------ *)
IsPrefix(p, t) == Len(p) <= Len(t) /\ SubSeq(t, 1, Len(p)) = p

C30_AppendOnlyLocal ==
    [][AnalyzerStep =>
          LET before == brokersFile.entries
              after == brokersFile'.entries
              b == result.broker
              a == result'.aiAnalysis[1]
              updated == updateBrokerWithAnalysis(b, a)
              named == {k \in 1..Len(before) : before[k].name = b.name}
          IN  /\ updated.name = b.name
              /\ IsPrefix(b.notes, updated.notes)
              /\ NumGE(a.confidence, 6) => Len(updated.notes) > Len(b.notes)
              /\ brokersFile'.valid = brokersFile.valid
              /\ Len(after) = Len(before)
              /\ \A k \in 1..Len(before) :
                    after[k] # before[k] =>
                       /\ k \in named
                       /\ NumGE(a.confidence, 6)
                       /\ after[k] = updated
              /\ named = {} =>
                    (brokersFile' = brokersFile /\ catalogWrites' = catalogWrites)
              /\ catalogWrites' # catalogWrites =>
                    (named # {} /\ NumGE(a.confidence, 6))]_vars

\* the second broker's diagnosis was written to the second entry and the
\* first entry is as it was
C30_Witness ==
    /\ Returned
    /\ catalogWrites = 1
    /\ Len(brokersFile.entries) = 2
    /\ brokersFile.entries[1] = BrokerPool[1]
    /\ brokersFile.entries[2].name = BrokerPool[2].name
    /\ brokersFile.entries[2].notes # BrokerPool[2].notes
    /\ IsPrefix(BrokerPool[2].notes, brokersFile.entries[2].notes)

\* C33: an attempt whose verdict is success never invokes the outcome
\* analyzer and never writes brokers.json: a step changes brokers.json only
\* as the analyzer call of an attempt whose result says failure, and a
\* result that says success has no analyzer call behind it, no diagnosis
\* attached and no catalog write in its attempt
C33_SuccessNeverAnalyzed ==
    [][/\ brokersFile' # brokersFile =>
             /\ pc = "analyze"
             /\ ~result.success
             /\ ~result'.success
             /\ calls' = Append(calls, "analyzer")
             /\ catalogWrites' = catalogWrites + 1
       /\ Len(calls') > Len(calls) /\ LastCall' = "analyzer" => ~result.success
       /\ result'.success =>
             /\ \A k \in 1..Len(calls') : calls'[k] # "analyzer"
             /\ catalogWrites' = 0
             /\ result'.aiAnalysis = <<>>]_vars

\* a successful attempt returned with its evidence saved: the analyzer's
\* other precondition held and it still was not called
C33_Witness ==
    /\ Returned
    /\ result.success
    /\ ScreenshotSaved(result)
    /\ IssuedAnyOf(VerifyCalls)

\* C34: every result removeFromBroker returns is well formed: success is
\* set only by the step of VerifyPhase whose success probe answered
\* positively, and sets the details with it; a returned result with
\* success=true has the error and success probes behind it, has details and
\* no error string; a result with an error string has success=false
C34_ResultWellFormed ==
    [][/\ (result'.success /\ ~result.success) =>
             /\ pc = "verifySuccess"
             /\ successCheck' # NoAnswer
             /\ successCheck'[1].foundSuccessText
             /\ result'.details = "Success confirmed: " \o successCheck'[1].successText
       /\ (result'.success /\ result.success) =>
             /\ result'.details = result.details
             /\ result'.error = result.error
       /\ Returned' =>
             /\ result'.success =>
                   /\ \E k \in 1..Len(calls') : calls'[k] = "extract:errorCheck"
                   /\ \E k \in 1..Len(calls') : calls'[k] = "extract:successCheck"
                   /\ \A k \in 1..Len(calls') : calls'[k] # "extract:formStill"
                   /\ Truthy(result'.details)
                   /\ result'.error = Absent
                   /\ fault' = Absent
             /\ result'.error # Absent => ~result'.success]_vars

\* a result came back with success=true, details and no error string, after
\* both probes of VerifyPhase
C34_Witness ==
    /\ Returned
    /\ result.success
    /\ Truthy(result.details)
    /\ result.error = Absent
    /\ Issued("extract:successCheck")
    /\ LastCall = "screenshot"

\* C35 (as claimed): a result says success only in an attempt whose submit
\* click was issued; an attempt whose SubmitPhase returned without clicking
\* never ends in success.
C35_SuccessOnlyAfterSubmit ==
    result.success => Issued("act:submit")

\* C32 (as claimed): the in-memory session holds one result per broker
\* processed, the k-th being the result of the k-th broker; no broker
\* contributes two results, also when the session write after its attempt
\* throws.
C32_OneResultPerBroker ==
    /\ Len(session.results) <= Len(brokersToProcess)
    /\ \A k \in 1..Len(session.results) :
          k <= Len(brokersToProcess) =>
             session.results[k].broker = brokersToProcess[k]
    /\ reported => Len(session.results) = Len(brokersToProcess)

(* ------------------------------------------------------------------------
   Runs under fair scheduling.  main is one chain of awaits: once the engine
   is initialised, the next statement runs as soon as the awaited call has
   returned or thrown.  Weak fairness of the program's steps from then on
   says exactly that every oracle call (page.goto, page.extract, page.act,
   page.screenshot, the vision model call) and every file operation
   returns or faults; nothing is assumed of the prompts answered by the
   user before that.
   ------------------------------------------------------------------------ *)
SpecFair == InitFrom(PairFiles) /\ [][Next]_vars /\ WF_vars(engineReady /\ Next)

\* the phase of removeFromBroker an oracle call belongs to: 1 Start and
\* PageLoaded, 2 the search probe, 3 Search, 4 Listing, 5 Instruction,
\* 6 Fill, 7 Consent, 8 Submit, 9 Verify, 10 Terminal (evidence, analysis)
PhaseOf(label) ==
    CASE label = "navigate" -> 1
      [] label = "extract:needsSearch" -> 2
      [] label \in SearchCalls -> 3
      [] label \in ListingCalls -> 4
      [] label \in InstructionCalls -> 5
      [] label \in FillCalls -> 6
      [] label \in ConsentCalls -> 7
      [] label \in SubmitCalls -> 8
      [] label \in VerifyCalls -> 9
      [] label \in {"screenshot", "analyzer"} -> 10

\* the oracle call sites of removeFromBroker and its helpers: navigate,
\* 1 search probe, 1 search, 2 listing probes, 1 instruction, 3 fill,
\* 2 consent, 5 submit, 3 verify, the snapshot and the analysis
CallsPerAttempt == Cardinality(WorkflowCalls \cup {"screenshot", "analyzer"})

\* an attempt is under way: removeFromBroker was called and main has not
\* yet recorded how it ended
AttemptUnderWay == Len(started) > ended

\* C36: provided every oracle call returns or faults, every attempt that
\* was started ends and the run comes to its end with the end time set and
\* one attempt ended per broker; within an attempt the oracle calls follow
\* the fixed order of the phases, the attempt starts with the navigation,
\* no call is issued twice (so no phase is entered twice), and an attempt
\* issues at most CallsPerAttempt calls whatever the oracle answers
C36_AttemptsTerminate ==
    /\ [](/\ \A k \in 1..(Len(calls) - 1) : PhaseOf(calls[k]) < PhaseOf(calls[k + 1])
             \/ /\ PhaseOf(calls[k]) = PhaseOf(calls[k + 1])
                /\ \A j \in 1..k : calls[j] # calls[k + 1]
          /\ calls # <<>> => calls[1] = "navigate"
          /\ Len(calls) <= CallsPerAttempt)
    /\ AttemptUnderWay ~> ~AttemptUnderWay
    /\ engineReady ~> (/\ pc = "exit"
                       /\ reported
                       /\ session.endTime # <<>>
                       /\ ended = Len(brokersToProcess)
                       /\ ~AttemptUnderWay)

\* a run over two brokers came to its end with the end time set, both
\* attempts ended
C36_Witness ==
    /\ pc = "exit"
    /\ reported
    /\ session.endTime # <<>>
    /\ Len(brokersToProcess) = 2
    /\ Len(started) = 2
    /\ ended = 2

(* ------------------------------------------------------------------------
   C31  Two runs on one brokers.json.
   ------------------------------------------------------------------------ *)
\* brokers.json holds annotation a in the notes of the entry it was written to
InCatalog(a) ==
    \E k \in 1..Len(brokersFile.entries) :
       /\ brokersFile.entries[k].name = a.name
       /\ Includes(brokersFile.entries[k].notes, a.text)

\* C31: as long as no other run has written brokers.json, every annotation
\* this run has persisted is in the catalog, up to and including the end of
\* the run; an annotation of either run is missing from the catalog only
\* after the other run's diagnosis write.  (That such a state is reachable
\* when the two runs interleave is C31_Witness.)
C31_LostUpdateOnlyInRace ==
    /\ peer.pc # "done" => \A a \in persisted : InCatalog(a)
    /\ \A a \in persisted :
          ~InCatalog(a) =>
             /\ peer.wrote # <<>>
             /\ peer.wrote[1].name = a.name
             /\ InCatalog(peer.wrote[1])
    /\ (peer.wrote # <<>> /\ ~InCatalog(peer.wrote[1])) =>
          \E a \in persisted : a.name = peer.wrote[1].name /\ InCatalog(a)

\* the lost update: this run persisted an annotation for a broker, the
\* other run, which had loaded the catalog before, then wrote its own
\* diagnosis for that broker, and this run's annotation is gone from
\* brokers.json while this run ends normally
C31_Witness ==
    /\ pc = "exit"
    /\ exitCode = 0
    /\ peer.pc = "done"
    /\ InCatalog(peer.wrote[1])
    /\ \E a \in persisted : a.name = peer.wrote[1].name /\ ~InCatalog(a)

====
